---- MODULE Spec2Model ----
(***************************************************************************)
(* ReCode: the recursive expansion engine.                                 *)
(*   agents/recode/agent.py   ReCodeAgent  (orchestrator, expansion)       *)
(*   agents/recode/utils.py   CodeNode, split_blocks, validate_blocks      *)
(*   utils/executor.py        Executor     (fragment evaluator)            *)
(***************************************************************************)
EXTENDS Integers, Sequences, FiniteSets, TLC

(***************************************************************************)
(* Bounds of the model.                                                    *)
(***************************************************************************)
\* the largest number of nodes a code tree grows to
MaxNodes == 4

(***************************************************************************)
(* Source text.  An identifier is its sequence of characters, so that the  *)
(* evaluator's substring test on the fragment text is computed on text.    *)
(***************************************************************************)
Id ==
  [ run         |-> <<"r","u","n">>,
    re          |-> <<"r","e">>,
    n           |-> <<"n">>,
    _t          |-> <<"_", "t">>,
    k           |-> <<"k">>,
    foo         |-> <<"f","o","o">>,
    solve       |-> <<"s","o","l","v","e">>,
    instruction |-> <<"i","n","s","t","r","u","c","t","i","o","n">>,
    observation |-> <<"o","b","s","e","r","v","a","t","i","o","n">> ]

Names == DOMAIN Id

NameAtom(v) == [k |-> "name", v |-> v]
LitAtom(v)  == [k |-> "lit", v |-> v]

\* one simple statement:  [target =] fn(args, name=atom, ...)   or
\* [target =] atom
CallKw(target, fn, args, keywords) ==
  [target |-> target, fn |-> fn, args |-> args, keywords |-> keywords,
   handler |-> FALSE]
Call(target, fn, args) == CallKw(target, fn, args, <<>>)
Expr(target, atom)     == CallKw(target, "", <<atom>>, <<>>)
Keyword(arg, value)    == [arg |-> arg, value |-> value]
\* the statement in a handler:  try: s  except Exception: pass
Try(s)                 == [s EXCEPT !.handler = TRUE]

AtomText(a) == IF a.k = "name" THEN Id[a.v] ELSE <<"'", a.v, "'">>

RECURSIVE ArgsText(_)
ArgsText(args) ==
  IF args = <<>> THEN <<>>
  ELSE IF Len(args) = 1 THEN AtomText(args[1])
  ELSE AtomText(args[1]) \o <<",", " ">> \o ArgsText(Tail(args))

RECURSIVE KeywordsText(_, _)
KeywordsText(keywords, first) ==
  IF keywords = <<>> THEN <<>>
  ELSE (IF first THEN <<>> ELSE <<",", " ">>)
       \o Id[keywords[1].arg] \o <<"=">> \o AtomText(keywords[1].value)
       \o KeywordsText(Tail(keywords), FALSE)

\* the key of the subscript target  globals()[0]: the integer 0.  The keys
\* of the model's dicts are strings; this one stands for the integer.
IntKey == "0"

\* the text of an assignment target: a name, or the subscript globals()[0]
TargetText(t) == IF t = IntKey THEN <<"globals()", "[", "0", "]">> ELSE Id[t]

SimpleText(s) ==
  (IF s.target # "" THEN TargetText(s.target) \o <<" ", "=", " ">> ELSE <<>>)
  \o (IF s.fn # ""
        THEN Id[s.fn] \o <<"(">> \o ArgsText(s.args)
             \o KeywordsText(s.keywords, s.args = <<>>) \o <<")">>
        ELSE AtomText(s.args[1]))

StmtText(s) ==
  IF s.handler
    THEN <<"try", ":", "\n", "    ">> \o SimpleText(s)
         \o <<"\n", "except", " ", "Exception", ":", "\n", "    ", "pass">>
    ELSE SimpleText(s)

\* the text of a fragment: its statements, one per line
RECURSIVE BlockText(_)
BlockText(b) ==
  IF b = <<>> THEN <<>>
  ELSE StmtText(b[1]) \o <<"\n">> \o BlockText(Tail(b))

\* Python's  needle in haystack  on text
Contains(hay, needle) ==
  \E i \in 0..(Len(hay) - Len(needle)) :
    SubSeq(hay, i + 1, i + Len(needle)) = needle

(***************************************************************************)
(* Executor: the fragment evaluator.                                       *)
(***************************************************************************)
RunFn == "<function run>"
ReMod == "<module re>"

_base_globals == [run |-> RunFn, re |-> ReMod]

\* {**a, **b}
Merge(a, b) ==
  [k \in DOMAIN a \cup DOMAIN b |-> IF k \in DOMAIN b THEN b[k] ELSE a[k]]

NoExc == [cls |-> "", msg |-> <<>>]
NameErrorExc(name) ==
  [cls |-> "NameError", msg |-> <<"name '">> \o Id[name] \o <<"' is not defined">>]
TypeErrorExc == [cls |-> "TypeError", msg |-> <<"object is not callable">>]
ArgErrorExc  == [cls |-> "TypeError", msg |-> <<"run() takes 1 positional argument">>]
StepLimitExc == [cls |-> "StepLimitError", msg |-> <<"Step limit exceeded.">>]
\* key.startswith('_') on a key that is an integer
AttributeErrorExc ==
  [cls |-> "AttributeError",
   msg |-> <<"'int' object has no attribute 'startswith'">>]

UnboundArgs(g, args) ==
  {i \in 1..Len(args) : args[i].k = "name" /\ args[i].v \notin DOMAIN g}

\* the operands of a call in the order they are evaluated
Operands(s) == s.args \o [i \in 1..Len(s.keywords) |-> s.keywords[i].value]

AtomValue(g, a) == IF a.k = "name" THEN g[a.v] ELSE a.v

\* exec of one simple statement in globals g: the callee is looked up first,
\* then the arguments left to right, then the call is made, then the target
\* is bound.  envRaises: the environment raises on run(action).
ExecSimple(g, s, envRaises) ==
  IF s.fn # "" /\ s.fn \notin DOMAIN g
    THEN [g |-> g, out |-> <<>>, exc |-> NameErrorExc(s.fn)]
  ELSE IF UnboundArgs(g, Operands(s)) # {}
    THEN LET i == CHOOSE i \in UnboundArgs(g, Operands(s)) :
                    \A j \in UnboundArgs(g, Operands(s)) : i <= j
         IN [g |-> g, out |-> <<>>, exc |-> NameErrorExc(Operands(s)[i].v)]
  ELSE IF s.fn # "" /\ g[s.fn] # RunFn
    THEN [g |-> g, out |-> <<>>, exc |-> TypeErrorExc]
  ELSE IF s.fn # "" /\ (Len(s.args) # 1 \/ s.keywords # <<>>)
    THEN [g |-> g, out |-> <<>>, exc |-> ArgErrorExc]
  ELSE IF s.fn # "" /\ envRaises
    THEN [g |-> g, out |-> <<>>, exc |-> StepLimitExc]
  ELSE LET value == IF s.fn # "" THEN "obs" ELSE AtomValue(g, s.args[1])
           out   == IF s.fn # "" THEN <<"obs">> ELSE <<>>
       IN [g   |-> IF s.target # "" THEN Merge(g, [k \in {s.target} |-> value])
                   ELSE g,
           out |-> out,
           exc |-> NoExc]

\* exec of one statement: a handler for Exception ends every exception the
\* statement raises, StepLimitError (a subclass of Exception) included.
\* limit: the environment raised StepLimitError during the statement
Handled(s, r) ==
  [g |-> r.g, out |-> r.out,
   exc |-> IF s.handler THEN NoExc ELSE r.exc,
   limit |-> r.exc = StepLimitExc]

\* exec of one statement, inside its handler if it has one
ExecStmt(g, s, envRaises) == Handled(s, ExecSimple(g, s, envRaises))

\* the key a statement inserted into the globals: none when it bound no new
\* key
Inserted(g, r) ==
  IF DOMAIN r.g = DOMAIN g THEN <<>>
  ELSE <<CHOOSE k \in DOMAIN r.g \ DOMAIN g : TRUE>>

\* exec(block, exec_globals): statements in order up to the first exception.
\* new: the keys the block inserted into the globals, in insertion order
RECURSIVE ExecFrom(_, _, _, _, _, _)
ExecRest(g, block, out, envRaises, limit, new, r) ==
  IF r.exc # NoExc
    THEN [g |-> r.g, out |-> out \o r.out, exc |-> r.exc,
          limit |-> limit \/ r.limit, new |-> new]
    ELSE ExecFrom(r.g, Tail(block), out \o r.out, envRaises,
                  limit \/ r.limit, new \o Inserted(g, r))

ExecFrom(g, block, out, envRaises, limit, new) ==
  IF block = <<>>
    THEN [g |-> g, out |-> out, exc |-> NoExc, limit |-> limit, new |-> new]
    ELSE ExecRest(g, block, out, envRaises, limit, new,
                  ExecStmt(g, block[1], envRaises))

Exec(g, block, out, envRaises) ==
  ExecFrom(g, block, out, envRaises, FALSE, <<>>)

\* _is_preserved_variable keeping no binding
PreserveNothing(key, value) == FALSE

_is_preserved_variable(key, value) ==
  IF Id[key][1] = "_" \/ key \in DOMAIN _base_globals THEN FALSE
  ELSE value \notin {RunFn, ReMod}

\* the keys of a dict as a sequence
RECURSIVE KeysOf(_)
KeysOf(S) ==
  IF S = {} THEN <<>>
  ELSE LET k == CHOOSE k \in S : TRUE IN <<k>> \o KeysOf(S \ {k})

\* exec_globals.items() after exec: the keys the globals were built with,
\* then the keys the block inserted, in insertion order
Items(vars, r) == KeysOf(DOMAIN Merge(_base_globals, vars)) \o r.new

\* the loop over exec_globals.items() that stores the preserved variables:
\* key.startswith raises AttributeError at a key that is not a string, and the
\* keys before it are already stored
RECURSIVE Commit(_, _, _)
Commit(vars, g, keys) ==
  IF keys = <<>> THEN [vars |-> vars, exc |-> NoExc]
  ELSE IF keys[1] = IntKey THEN [vars |-> vars, exc |-> AttributeErrorExc]
  ELSE Commit(IF _is_preserved_variable(keys[1], g[keys[1]])
                THEN Merge(vars, [k \in {keys[1]} |-> g[keys[1]]])
                ELSE vars,
              g, Tail(keys))

\* re.search(r"name '(.+?)' is not defined", str(e)): the matched name, or <<>>
NameErrorMatch(msg) ==
  LET starts == {i \in 1..Len(msg) : msg[i] = "name '" /\
                   \E j \in (i + 2)..Len(msg) : msg[j] = "' is not defined"}
  IN IF starts = {} THEN <<>>
     ELSE LET i == CHOOSE i \in starts : \A k \in starts : i <= k
              ends == {j \in (i + 2)..Len(msg) : msg[j] = "' is not defined"}
              j == CHOOSE j \in ends : \A k \in ends : j <= k
          IN SubSeq(msg, i + 1, j - 1)

NeedExpansionText(name) ==
  <<"NeedExpansion", ": ">> \o name \o <<" needs to be expanded.">>

\* NameErrorText without the stub heuristic: every NameError is genuine
NameErrorTextNoStub(block, e) == <<"NameError", ": ">> \o e.msg

\* the except NameError branch: the stub heuristic
NameErrorText(block, e) ==
  LET m == NameErrorMatch(e.msg)
  IN IF m # <<>> /\ Contains(BlockText(block), m \o <<"(">>)
       THEN NeedExpansionText(m)
       ELSE <<"NameError", ": ">> \o e.msg

\* Executor._run_block: (success, stdout_lines, error_msg) and the variables.
\* r: what exec left; c: what the loop storing the variables left
Returned(block, vars, r, c) ==
  IF r.exc = NoExc /\ c.exc = NoExc
    THEN [success |-> TRUE, stdout |-> r.out, error |-> <<>>, vars |-> c.vars]
  ELSE IF r.exc = NoExc
    THEN [success |-> FALSE, stdout |-> r.out,
          error |-> <<c.exc.cls, ": ">> \o c.exc.msg, vars |-> c.vars]
  ELSE IF r.exc.cls = "NameError"
    THEN [success |-> FALSE, stdout |-> r.out,
          error |-> NameErrorText(block, r.exc), vars |-> vars]
  ELSE [success |-> FALSE, stdout |-> r.out,
        error |-> <<r.exc.cls, ": ">> \o r.exc.msg, vars |-> vars]

ExecutionResult(block, vars, r) ==
  Returned(block, vars, r,
           IF r.exc = NoExc THEN Commit(vars, r.g, Items(vars, r))
           ELSE [vars |-> vars, exc |-> NoExc])

\* Executor._run_block: exec of the block in the base globals overlaid with
\* the variables
_run_block(block, vars, envRaises) ==
  ExecutionResult(block, vars,
                  Exec(Merge(_base_globals, vars), block, <<>>, envRaises))

(***************************************************************************)
(* Model replies.  The execute section is a sequence of top-level lines:   *)
(* a statement, a function definition, or a line that is a syntax error.   *)
(***************************************************************************)
StmtLine(body) == [kind |-> "stmt", body |-> body]
DefLine == [kind |-> "def", body |-> <<>>]
BadLine == [kind |-> "bad", body |-> <<>>]
\* a compound statement with a definition in its body, as  if a: def f(): pass
NestedDefLine == [kind |-> "nested", body |-> <<>>]
\* a statement left open, as  x = (
OpenLine == [kind |-> "open", body |-> <<>>]

\* the statements the model draws its replies from
LinePool ==
  { StmtLine(<<Call("n", "run", <<NameAtom("observation")>>)>>),
    StmtLine(<<Call("", "run", <<NameAtom("n")>>)>>),
    StmtLine(<<Call("", "foo", <<NameAtom("n")>>)>>),
    StmtLine(<<Expr("", NameAtom("n"))>>),
    DefLine,
    BadLine }

SeqsUpTo(S, k) == UNION {[1..m -> S] : m \in 0..k}

\* a reply: the sections it holds (a missing section is absent)
Responses(k) ==
  {[think |-> "thought", execute |-> src] : src \in SeqsUpTo(LinePool, k)}
  \cup {[think |-> "thought"]}

\* re.search(<tag>(.*?)</tag>): the section, or the empty string
parse_xml_tag(response, xml_tag) ==
  IF xml_tag \in DOMAIN response THEN response[xml_tag]
  ELSE IF xml_tag = "execute" THEN <<>> ELSE ""

\* the simple statements of a block of lines
RECURSIVE Stmts(_)
Stmts(block) ==
  IF block = <<>> THEN <<>> ELSE block[1].body \o Stmts(Tail(block))

\* get_variables(executor, code), called to build the prompt of a request:
\* what it leaves in the executor's variables.  collect_from_call handles the
\* keywords once for each positional argument of the first call of the code,
\* and stores every keyword whose value is a literal with executor.set_var.
RECURSIVE SetLiteralKeywords(_, _)
SetLiteralKeywords(vs, keywords) ==
  IF keywords = <<>> THEN vs
  ELSE LET kw == keywords[1]
       IN SetLiteralKeywords(
            IF kw.value.k = "lit"
              THEN Merge(vs, [x \in {kw.arg} |-> kw.value.v])
              ELSE vs,
            Tail(keywords))

get_variables(vs, code) ==
  LET body == Stmts(code)
      calls == {i \in 1..Len(body) : body[i].fn # ""}
  IN IF calls = {} THEN vs
     ELSE LET call == body[CHOOSE i \in calls : \A j \in calls : i <= j]
          IN IF call.args = <<>> THEN vs
             ELSE SetLiteralKeywords(vs, call.keywords)

(***************************************************************************)
(* split_blocks and validate_blocks, on lines.                             *)
(***************************************************************************)
\* ast.parse(source) succeeds
AstParses(source) ==
  \A i \in 1..Len(source) : source[i].kind \notin {"bad", "open"}
\* ast.walk finds a FunctionDef / AsyncFunctionDef
HasFunctionDef(source) ==
  \E i \in 1..Len(source) : source[i].kind \in {"def", "nested"}

\* codeop.CommandCompiler()(text, symbol="exec"): "code", "none" (the text
\* is the beginning of a statement) or "error" (it raises).  The empty text
\* compiles; a line after an open statement is a syntax error.
Compile(buf) ==
  IF \E i \in 1..Len(buf) : buf[i].kind = "bad" THEN "error"
  ELSE IF \E i \in 1..(Len(buf) - 1) : buf[i].kind = "open" THEN "error"
  ELSE IF buf # <<>> /\ buf[Len(buf)].kind = "open" THEN "none"
  ELSE "code"

\* the incremental fallback of split_blocks
RECURSIVE SplitIncremental(_, _, _)
SplitIncremental(lines, buf, blocks) ==
  IF lines = <<>>
    THEN IF buf # <<>> THEN Append(blocks, buf) ELSE blocks
  ELSE
    LET line == Head(lines)
        buf1 == Append(buf, line)
    IN CASE Compile(buf1) = "error" ->
              IF buf # <<>> /\ Compile(buf) = "code"
                THEN IF Compile(<<line>>) = "error"
                       THEN SplitIncremental(Tail(lines), <<>>,
                                             blocks \o <<buf, <<line>>>>)
                       ELSE SplitIncremental(Tail(lines), <<line>>,
                                             Append(blocks, buf))
                ELSE SplitIncremental(Tail(lines), buf, Append(blocks, <<line>>))
         [] Compile(buf1) = "code" ->
              SplitIncremental(Tail(lines), <<>>, Append(blocks, buf1))
         [] OTHER -> SplitIncremental(Tail(lines), buf1, blocks)

\* the number of statements ast.parse finds on a line
NodesOn(line) == IF line.kind = "stmt" THEN Len(line.body) ELSE 1

\* the AST path of split_blocks: for every statement of tree.body, the lines
\* from its first to its last; a line is returned once for each statement
\* on it
RECURSIVE LinesOfStatements(_)
LinesOfStatements(source) ==
  IF source = <<>> THEN <<>>
  ELSE [j \in 1..NodesOn(source[1]) |-> <<source[1]>>]
       \o LinesOfStatements(Tail(source))

\* split_blocks taking an empty source for a definition
split_blocksEmptyRaises(source) ==
  IF source = <<>> \/ (AstParses(source) /\ HasFunctionDef(source))
    THEN [exc |-> "ValueError", blocks |-> <<>>]
  ELSE IF AstParses(source)
    THEN [exc |-> "", blocks |-> LinesOfStatements(source)]
  ELSE [exc |-> "", blocks |-> SplitIncremental(source, <<>>, <<>>)]

\* split_blocks: the blocks, or the exception it raises
split_blocks(source) ==
  IF source = <<>> THEN [exc |-> "", blocks |-> <<>>]
  ELSE IF AstParses(source)
    THEN IF HasFunctionDef(source)
           THEN [exc |-> "ValueError", blocks |-> <<>>]
           ELSE [exc |-> "", blocks |-> LinesOfStatements(source)]
  ELSE [exc |-> "", blocks |-> SplitIncremental(source, <<>>, <<>>)]

\* validate_blocks without the search for definitions
RECURSIVE validate_blocksSyntaxOnly(_)
validate_blocksSyntaxOnly(blocks) ==
  IF blocks = <<>> THEN ""
  ELSE IF Compile(blocks[1]) # "code" THEN "SyntaxError"
  ELSE validate_blocksSyntaxOnly(Tail(blocks))

\* validate_blocks: "" when every block passes, else the exception raised
RECURSIVE validate_blocks(_)
validate_blocks(blocks) ==
  IF blocks = <<>> THEN ""
  ELSE IF Compile(blocks[1]) # "code" THEN "SyntaxError"
  ELSE IF HasFunctionDef(blocks[1]) THEN "ValueError"
  ELSE validate_blocks(Tail(blocks))

(***************************************************************************)
(* CodeNode: the code tree.  A node is addressed by its index in nodes;    *)
(* 0 is None.                                                              *)
(***************************************************************************)
DEFAULT_MAX_DEPTH == 10
DEFAULT_MAX_REWRITE == 5

\* CodeNode giving a child the depth of its parent
CodeNodeParentDepth(code, parent, parentDepth) ==
  [ thought      |-> "",
    code         |-> code,
    parent       |-> parent,
    children     |-> <<>>,
    status       |-> "PENDING",
    depth        |-> parentDepth,
    error        |-> <<>>,
    observations |-> <<>> ]

\* CodeNode(code=code, parent=parent) with __post_init__
CodeNode(code, parent, parentDepth) ==
  [ thought      |-> "",
    code         |-> code,
    parent       |-> parent,
    children     |-> <<>>,
    status       |-> "PENDING",
    depth        |-> IF parent = 0 THEN 0 ELSE parentDepth + 1,
    error        |-> <<>>,
    observations |-> <<>> ]

\* FirstPending without the test of the status
FirstAnyStatus(ns, ids, from) == IF from <= Len(ids) THEN ids[from] ELSE 0

\* FirstPending taking the last PENDING node instead of the first
LastPending(ns, ids, from) ==
  LET hits == {i \in from..Len(ids) : ns[ids[i]].status = "PENDING"}
  IN IF hits = {} THEN 0
     ELSE ids[CHOOSE i \in hits : \A j \in hits : i >= j]

\* the first PENDING node among ids[from..], or 0
FirstPending(ns, ids, from) ==
  LET hits == {i \in from..Len(ids) : ns[ids[i]].status = "PENDING"}
  IN IF hits = {} THEN 0
     ELSE ids[CHOOSE i \in hits : \A j \in hits : i <= j]

\* siblings.index(self), or 0 for the ValueError
IndexOf(ids, id) ==
  LET hits == {i \in 1..Len(ids) : ids[i] = id}
  IN IF hits = {} THEN 0 ELSE CHOOSE i \in hits : \A j \in hits : i <= j

\* next without the way back up: the children, then the later siblings
nextNoBacktrack(ns, self) ==
  IF FirstPending(ns, ns[self].children, 1) # 0
    THEN FirstPending(ns, ns[self].children, 1)
  ELSE IF ns[self].parent = 0 THEN 0
  ELSE IF IndexOf(ns[ns[self].parent].children, self) = 0 THEN 0
  ELSE FirstPending(ns, ns[ns[self].parent].children,
                    IndexOf(ns[ns[self].parent].children, self) + 1)

\* CodeNode.next
RECURSIVE next(_, _)
next(ns, self) ==
  LET child == FirstPending(ns, ns[self].children, 1)
      parent == ns[self].parent
  IN IF child # 0 THEN child
     ELSE IF parent = 0 THEN 0
     ELSE LET siblings == ns[parent].children
              current_index == IndexOf(siblings, self)
              sibling == IF current_index = 0 THEN 0
                         ELSE FirstPending(ns, siblings, current_index + 1)
          IN IF sibling # 0 THEN sibling ELSE next(ns, parent)

(***************************************************************************)
(* ReCodeAgent: the orchestrator.                                          *)
(***************************************************************************)
VARIABLES
  pc,                \* "new", "ready" (between turns), "llm" (act awaits the
                     \* model inside _expand), "finished" (act returned [FINISH]),
                     \* "raised" (act was left by an exception)
  max_depth, max_rewrite,
  is_start,
  nodes,             \* the code tree
  current_node,
  variables,         \* Executor._variables
  attempt, retry_hint_added,    \* locals of _expand
  prompts,           \* the requests sent to the model, in order: the node
                     \* expanded and whether the prompt carried the hint
  evaluated,         \* the nodes whose fragment was evaluated, in order
  turn,              \* what the turn in progress, or the last one, did
  input, output,     \* argument and result of a function applied on its own
  tree,              \* the NodeTree of recode_plus: objs, the Node objects in
                     \* the order of their creation, addressed by index;
                     \* root and current, a Node or 0 for None; nodes, the
                     \* dict from id to Node
  mediator,          \* a MediatorAgent of recode_plus executing one node, the
                     \* WebSocket handler that serves it and its client
  env,               \* an environment adapter and its simulator
  llm                \* an AsyncLLM client

vars == <<pc, max_depth, max_rewrite, is_start, nodes, current_node, variables,
          attempt, retry_hint_added, prompts, evaluated, turn, input, output,
          tree, mediator, env, llm>>

\* the state of the ReCode agent and its executor
agent == <<max_depth, max_rewrite, is_start, nodes, current_node, variables,
           attempt, retry_hint_added, prompts, evaluated, turn>>

\* no NodeTree has been constructed
NoTree == [objs |-> <<>>, root |-> 0, nodes |-> <<>>, current |-> 0]

\* no MediatorAgent, no environment, no client has been constructed
NoMediator == [pc |-> "none"]
NoEnv == [pc |-> "none"]
NoLLM == [pc |-> "none"]

\* the values running_config may hold for a limit; 0 is an absent entry
ConfigValues == {0, 1, 2}

\* node: the node the turn started on, then the node it evaluated;
\* expanded: "" or how the expansion ended ("children", "empty", "null", "depth");
\* evaluated, pre, envRaises, success, error: the evaluation made, the
\* variables before it, what the environment did, and what it returned;
\* reply: "" or what the execute section of the last reply held ("empty", "code");
\* ret: what act returned, or "raise"; why: "" or why the attempt ended
NoTurn == [node |-> 0, expanded |-> "", evaluated |-> FALSE, pre |-> <<>>,
           envRaises |-> FALSE, success |-> FALSE, error |-> <<>>,
           reply |-> "", ret |-> "None", why |-> ""]

Init ==
  /\ pc = "new"
  /\ max_depth = 0
  /\ max_rewrite = 0
  /\ is_start = FALSE
  /\ nodes = <<>>
  /\ current_node = 0
  /\ variables = <<>>
  /\ attempt = 0
  /\ retry_hint_added = FALSE
  /\ prompts = <<>>
  /\ evaluated = <<>>
  /\ turn = NoTurn
  /\ input = 0
  /\ output = 0
  /\ tree = NoTree
  /\ mediator = NoMediator
  /\ env = NoEnv
  /\ llm = NoLLM

\* ReCodeAgent.reset
Reset(cfgDepth, cfgRewrite) ==
  /\ pc = "new"
  /\ pc' = "ready"
  /\ max_depth' = IF cfgDepth = 0 THEN DEFAULT_MAX_DEPTH ELSE cfgDepth
  /\ max_rewrite' = IF cfgRewrite = 0 THEN DEFAULT_MAX_REWRITE ELSE cfgRewrite
  /\ is_start' = FALSE
  /\ nodes' = <<>>
  /\ current_node' = 0
  /\ UNCHANGED <<variables, attempt, retry_hint_added, prompts, evaluated, turn,
                 input, output>>
  /\ UNCHANGED <<tree, mediator, env, llm>>

RootCode == <<StmtLine(<<Call("", "solve",
                <<NameAtom("instruction"), NameAtom("observation")>>)>>)>>

\* what _init_code_tree stores in the executor
Seed == [observation |-> "room", instruction |-> "task"]

\* MarkFailed dropping the error text
MarkFailedNoText(ns, cur, result) ==
  IF Contains(result.error, <<"NeedExpansion">>)
    THEN [ns EXCEPT ![cur].status = "STUB"]
    ELSE [ns EXCEPT ![cur].status = "ERROR"]

\* act on a failed evaluation: STUB for a stub marker, else ERROR and its text
MarkFailed(ns, cur, result) ==
  IF Contains(result.error, <<"NeedExpansion">>)
    THEN [ns EXCEPT ![cur].status = "STUB"]
    ELSE [ns EXCEPT ![cur].status = "ERROR", ![cur].error = result.error]

\* act, from the evaluation of the current node to its return
Evaluated(ns, cur, vs, t, envRaises, result) ==
  LET ns1 == [ns EXCEPT ![cur].observations = @ \o result.stdout]
      t1 == [t EXCEPT !.evaluated = TRUE, !.node = cur, !.pre = vs,
                      !.envRaises = envRaises, !.success = result.success,
                      !.error = result.error]
  IN /\ variables' = result.vars
     /\ evaluated' = Append(evaluated, cur)
     /\ IF result.success
          THEN LET ns2 == [ns1 EXCEPT ![cur].status = "COMPLETED"]
                   nxt == next(ns2, cur)
               IN /\ nodes' = ns2
                  /\ current_node' = nxt
                  /\ pc' = IF nxt = 0 THEN "finished" ELSE "ready"
                  /\ turn' = IF nxt = 0
                               THEN [t1 EXCEPT !.ret = "FINISH", !.why = "exhausted"]
                               ELSE t1
          ELSE /\ nodes' = MarkFailed(ns1, cur, result)
               /\ current_node' = cur
               /\ pc' = "ready"
               /\ turn' = t1

\* act: result = executor.execute(current_node.code) and what follows
Execute(ns, cur, vs, t, envRaises) ==
  Evaluated(ns, cur, vs, t, envRaises,
            _run_block(Stmts(ns[cur].code), vs, envRaises))

\* act returns [FINISH] with no current node
Finish(ns, t, why) ==
  /\ nodes' = ns
  /\ current_node' = 0
  /\ pc' = "finished"
  /\ turn' = [t EXCEPT !.ret = "FINISH", !.why = why]
  /\ UNCHANGED <<variables, evaluated>>

\* the depth guard off by one
DepthGuardOffByOne(node) == node.depth > max_depth

\* _handle_stub: the depth guard
DepthGuard(node) == node.depth >= max_depth

\* a request that never carries the corrective instruction
PromptNoHint(cur, hint_added) == [node |-> cur, hint |-> FALSE]

\* _expand: the request sent for the current node; the corrective instruction
\* is appended to the prompt when retry_hint_added is set
Prompt(cur, hint_added) == [node |-> cur, hint |-> hint_added]

\* act, up to its return or to the first request of _expand
Act(envRaises) ==
  /\ pc = "ready"
  /\ LET ns == IF is_start THEN nodes ELSE <<CodeNode(RootCode, 0, 0)>>
         cur == IF is_start THEN current_node ELSE 1
         vs == IF is_start THEN variables ELSE Merge(variables, Seed)
         t == [NoTurn EXCEPT !.node = cur]
     IN /\ is_start' = TRUE
        /\ CASE ns[cur].status = "STUB" /\ DepthGuard(ns[cur]) ->
                  /\ Finish(ns, [t EXCEPT !.expanded = "depth"], "depth")
                  /\ UNCHANGED <<attempt, retry_hint_added, prompts>>
             [] ns[cur].status = "STUB" /\ ~DepthGuard(ns[cur]) ->
                  \* _expand: the first request
                  /\ attempt' = 0
                  /\ retry_hint_added' = FALSE
                  /\ prompts' = Append(prompts, Prompt(cur, FALSE))
                  /\ pc' = "llm"
                  /\ turn' = t
                  /\ nodes' = ns
                  /\ current_node' = cur
                  /\ variables' = get_variables(vs, ns[cur].code)
                  /\ UNCHANGED evaluated
             [] ns[cur].status = "ERROR" ->
                  /\ nodes' = ns
                  /\ current_node' = cur
                  /\ pc' = "finished"
                  /\ turn' = [t EXCEPT !.ret = "FINISH", !.why = "error"]
                  /\ UNCHANGED <<variables, evaluated, attempt,
                                 retry_hint_added, prompts>>
             [] OTHER ->
                  /\ Execute(ns, cur, vs, t, envRaises)
                  /\ UNCHANGED <<attempt, retry_hint_added, prompts>>
  /\ UNCHANGED <<max_depth, max_rewrite, input, output>>
  /\ UNCHANGED <<tree, mediator, env, llm>>

\* Attach marking the node SKIP whatever the expansion returned
AttachAlwaysSkip(ns, cur, new_blocks) ==
  [ns EXCEPT ![cur].children =
               @ \o [i \in 1..Len(new_blocks) |-> Len(ns) + i],
             ![cur].status = "SKIP"]
  \o [i \in 1..Len(new_blocks) |-> CodeNode(new_blocks[i], cur, ns[cur].depth)]

\* Attach putting the expanded node back to PENDING
AttachResetsPending(ns, cur, new_blocks) ==
  IF new_blocks # <<>>
    THEN [ns EXCEPT ![cur].children =
                      @ \o [i \in 1..Len(new_blocks) |-> Len(ns) + i],
                    ![cur].status = "PENDING"]
         \o [i \in 1..Len(new_blocks) |->
               CodeNode(new_blocks[i], cur, ns[cur].depth)]
    ELSE [ns EXCEPT ![cur].status = "SKIP"]

\* _handle_stub after _expand returned a list: the children, or SKIP
Attach(ns, cur, new_blocks) ==
  IF new_blocks # <<>>
    THEN [ns EXCEPT ![cur].children =
                      @ \o [i \in 1..Len(new_blocks) |-> Len(ns) + i]]
         \o [i \in 1..Len(new_blocks) |->
               CodeNode(new_blocks[i], cur, ns[cur].depth)]
    ELSE [ns EXCEPT ![cur].status = "SKIP"]

\* None taken for an empty expansion
AbandonAsSkip(ns, cur) == [ns EXCEPT ![cur].status = "SKIP"]

\* _handle_stub after _expand returned None: the tree is left as it is
Abandon(ns, cur) == ns

\* the retry budget allowing one more request
BudgetExhaustedLate(att) == att > max_rewrite

\* _expand after a failed validation: the retry budget is used up
BudgetExhausted(att) == att >= max_rewrite

\* the reasoning recorded on the node created last instead of the current one
RecordThoughtOnLast(ns, cur, thought) ==
  [ns EXCEPT ![Len(ns)].thought = thought]

\* _expand: self.current_node.thought = thought, before the validation
RecordThought(ns, cur, thought) == [ns EXCEPT ![cur].thought = thought]

\* the model's reply arrives: _expand, and on its return the rest of
\* _handle_stub and of act
LLMReply(response, envRaises) ==
  /\ pc = "llm"
  /\ LET cur == current_node
         thought == parse_xml_tag(response, "think")
         ns == RecordThought(nodes, cur, thought)
         expanded_code == parse_xml_tag(response, "execute")
         split == split_blocks(expanded_code)
         invalid == IF split.exc # "" THEN split.exc
                    ELSE validate_blocks(split.blocks)
         tr == [turn EXCEPT !.reply = IF expanded_code = <<>> THEN "empty"
                                      ELSE "code"]
     IN IF invalid = ""
          THEN LET ns1 == Attach(ns, cur, split.blocks)
                   nxt == next(ns1, cur)
                   t == [tr EXCEPT !.expanded =
                           IF split.blocks = <<>> THEN "empty" ELSE "children"]
               IN /\ UNCHANGED <<attempt, retry_hint_added, prompts>>
                  /\ IF nxt = 0 THEN Finish(ns1, t, "exhausted")
                     ELSE Execute(ns1, nxt, variables, t, envRaises)
        ELSE IF BudgetExhausted(attempt + 1)
          THEN \* _expand returns None
               /\ attempt' = attempt + 1
               /\ retry_hint_added' = TRUE
               /\ UNCHANGED prompts
               /\ Finish(Abandon(ns, cur), [tr EXCEPT !.expanded = "null"], "null")
        ELSE /\ attempt' = attempt + 1
             /\ retry_hint_added' = TRUE
             /\ prompts' = Append(prompts, Prompt(cur, TRUE))
             /\ nodes' = ns
             /\ turn' = tr
             /\ variables' = get_variables(variables, ns[cur].code)
             /\ UNCHANGED <<pc, current_node, evaluated>>
  /\ UNCHANGED <<max_depth, max_rewrite, is_start, input, output>>
  /\ UNCHANGED <<tree, mediator, env, llm>>

\* the model client fails: AsyncLLM._retry_api_call re-raises the API error of
\* its last try, and neither AsyncLLM.__call__, _expand, _handle_stub nor act
\* catches it
LLMFails ==
  /\ pc = "llm"
  /\ pc' = "raised"
  /\ turn' = [turn EXCEPT !.ret = "raise", !.why = "llm"]
  /\ UNCHANGED <<max_depth, max_rewrite, is_start, nodes, current_node,
                 variables, attempt, retry_hint_added, prompts, evaluated,
                 input, output>>
  /\ UNCHANGED <<tree, mediator, env, llm>>

Next ==
  \/ \E d \in ConfigValues, r \in ConfigValues : Reset(d, r)
  \/ \E envRaises \in BOOLEAN : Act(envRaises)
  \/ \E response \in Responses(MaxNodes - Len(nodes)), envRaises \in BOOLEAN :
       LLMReply(response, envRaises)
  \/ LLMFails

Spec == Init /\ [][Next]_vars

\* the replies of an attempt that is followed to its end: statement lists made
\* of a stub call, a call of the primitive and a definition
LivePool ==
  { StmtLine(<<Call("n", "run", <<NameAtom("observation")>>)>>),
    StmtLine(<<Call("", "foo", <<NameAtom("n")>>)>>),
    DefLine }

ResponsesLive(k) ==
  {[think |-> "thought", execute |-> src] : src \in SeqsUpTo(LivePool, k)}

NextLive ==
  \/ \E d \in ConfigValues, r \in ConfigValues : Reset(d, r)
  \/ \E envRaises \in BOOLEAN : Act(envRaises)
  \/ \E response \in ResponsesLive(MaxNodes - Len(nodes)), envRaises \in BOOLEAN :
       LLMReply(response, envRaises)

\* the driver keeps calling act until it returns [FINISH], every call of act
\* returns and every request to the model is answered: weak fairness of
\* NextLive, which is enabled exactly while pc # "finished"
SpecLive ==
  /\ Init /\ [][NextLive]_vars
  /\ ([]<>(pc = "finished") \/ []<><<NextLive>>_vars)

\* attempts whose plans call the primitive inside a handler
HandlerPool ==
  { StmtLine(<<Try(Call("", "run", <<NameAtom("observation")>>))>>),
    StmtLine(<<Call("n", "run", <<NameAtom("observation")>>)>>),
    StmtLine(<<Call("", "foo", <<NameAtom("n")>>)>>) }

ResponsesHandler(k) ==
  {[think |-> "thought", execute |-> src] : src \in SeqsUpTo(HandlerPool, k)}

NextHandler ==
  \/ \E d \in ConfigValues, r \in ConfigValues : Reset(d, r)
  \/ \E envRaises \in BOOLEAN : Act(envRaises)
  \/ \E response \in ResponsesHandler(MaxNodes - Len(nodes)),
          envRaises \in BOOLEAN :
       LLMReply(response, envRaises)

SpecHandler == Init /\ [][NextHandler]_vars

\* attempts whose plans pass a literal by keyword to a stub
KeywordPool ==
  { StmtLine(<<CallKw("", "foo", <<NameAtom("observation")>>,
                      <<Keyword("k", LitAtom("x"))>>)>>),
    StmtLine(<<Call("", "run", <<NameAtom("k")>>)>>),
    DefLine }

ResponsesKeyword(k) ==
  {[think |-> "thought", execute |-> src] : src \in SeqsUpTo(KeywordPool, k)}

NextKeyword ==
  \/ \E d \in ConfigValues, r \in ConfigValues : Reset(d, r)
  \/ \E envRaises \in BOOLEAN : Act(envRaises)
  \/ \E response \in ResponsesKeyword(MaxNodes - Len(nodes)),
          envRaises \in BOOLEAN :
       LLMReply(response, envRaises)

SpecKeyword == Init /\ [][NextKeyword]_vars

(***************************************************************************)
(* CodeNode.next applied on its own, to every tree of at most MaxNodes     *)
(* nodes and every assignment of statuses.  Nodes are numbered so that a   *)
(* parent comes before its children and siblings are in list order.        *)
(***************************************************************************)
NodeStatus == {"PENDING", "COMPLETED", "STUB", "ERROR", "SKIP"}

\* the parent of each node but the root
ParentMaps(k) == {par \in [2..k -> 1..k] : \A i \in 2..k : par[i] < i}

RECURSIVE Ascending(_)
Ascending(S) ==
  IF S = {} THEN <<>>
  ELSE LET m == CHOOSE m \in S : \A x \in S : m <= x
       IN <<m>> \o Ascending(S \ {m})

RECURSIVE DepthIn(_, _)
DepthIn(par, i) == IF i = 1 THEN 0 ELSE DepthIn(par, par[i]) + 1

TreeOf(k, par, st) ==
  [i \in 1..k |->
     [ thought      |-> "",
       code         |-> <<>>,
       parent       |-> IF i = 1 THEN 0 ELSE par[i],
       children     |-> Ascending({j \in 2..k : par[j] = i}),
       status       |-> st[i],
       depth        |-> DepthIn(par, i),
       error        |-> <<>>,
       observations |-> <<>> ]]

InitNext ==
  /\ pc = "tree"
  /\ \E k \in 1..MaxNodes :
       \E par \in ParentMaps(k), st \in [1..k -> NodeStatus] :
         nodes = TreeOf(k, par, st)
  /\ max_depth = 0
  /\ max_rewrite = 0
  /\ is_start = TRUE
  /\ current_node = 0
  /\ variables = <<>>
  /\ attempt = 0
  /\ retry_hint_added = FALSE
  /\ prompts = <<>>
  /\ evaluated = <<>>
  /\ turn = NoTurn
  /\ input = 0
  /\ output = 0
  /\ tree = NoTree
  /\ mediator = NoMediator
  /\ env = NoEnv
  /\ llm = NoLLM

\* self.current_node = self.current_node.next()
CallNext(self) ==
  /\ pc = "tree"
  /\ pc' = "called"
  /\ input' = self
  /\ output' = next(nodes, self)
  /\ current_node' = output'
  /\ UNCHANGED <<max_depth, max_rewrite, is_start, nodes, variables, attempt,
                 retry_hint_added, prompts, evaluated, turn>>
  /\ UNCHANGED <<tree, mediator, env, llm>>

\* reversed(seq)
Reversed(seq) == [i \in 1..Len(seq) |-> seq[Len(seq) + 1 - i]]

\* EdgesOf taking the children in the order they are pushed on the stack
EdgesOfReversed(id, children) ==
  [i \in 1..Len(children) |-> <<id, children[Len(children) + 1 - i]>>]

\* for child in node.children: edges.append([node.id, child.id])
EdgesOf(id, children) == [i \in 1..Len(children) |-> <<id, children[i]>>]

\* the entry of a node in the snapshot's "nodes"
NodeEntry(node) ==
  [ code         |-> node.code,
    thought      |-> node.thought,
    status       |-> node.status,
    depth        |-> node.depth,
    observations |-> node.observations,
    error        |-> node.error ]

\* the loop of _get_formatted_tree: pop a node, record it, append its
\* edges, push its children in reverse.  A node's id is its index.
RECURSIVE WalkTree(_, _, _, _)
WalkTree(ns, stack, entries, edges) ==
  IF stack = <<>> THEN [nodes |-> entries, edges |-> edges]
  ELSE LET id == stack[Len(stack)]
           node == ns[id]
       IN WalkTree(ns,
                   SubSeq(stack, 1, Len(stack) - 1) \o Reversed(node.children),
                   Merge(entries, [x \in {id} |-> NodeEntry(node)]),
                   edges \o EdgesOf(id, node.children))

\* ReCodeAgent._get_formatted_tree: root_id, nodes and edges
_get_formatted_tree(ns) ==
  IF ns = <<>> THEN [root_id |-> 0, nodes |-> <<>>, edges |-> <<>>]
  ELSE LET w == WalkTree(ns, <<1>>, <<>>, <<>>)
       IN [root_id |-> 1, nodes |-> w.nodes, edges |-> w.edges]

Larger(a, b) == IF a > b THEN a ELSE b

\* ReCodeAgent._get_max_depth: the largest depth in the subtree of a node;
\* 0 for no node
RECURSIVE _get_max_depth(_, _)
RECURSIVE DeepestOf(_, _, _)
DeepestOf(ns, children, deepest) ==
  IF children = <<>> THEN deepest
  ELSE DeepestOf(ns, Tail(children),
                 Larger(_get_max_depth(ns, children[1]), deepest))

_get_max_depth(ns, node) ==
  IF node = 0 THEN 0 ELSE DeepestOf(ns, ns[node].children, ns[node].depth)

\* self.root: the first node, or None
RootOf(ns) == IF ns = <<>> THEN 0 ELSE 1

\* ReCodeAgent.report: the snapshot of the tree and the depth reached (the
\* cost is the client's)
report(ns) ==
  [tree |-> _get_formatted_tree(ns),
   max_depth |-> _get_max_depth(ns, RootOf(ns))]

\* the driver calls report(): on a tree taken on its own, and between the
\* turns or at the end of an attempt
Report ==
  /\ pc \in {"tree", "ready", "finished", "raised"}
  /\ pc' = "reported"
  /\ output' = report(nodes)
  /\ UNCHANGED <<max_depth, max_rewrite, is_start, nodes, current_node,
                 variables, attempt, retry_hint_added, prompts, evaluated, turn,
                 input>>
  /\ UNCHANGED <<tree, mediator, env, llm>>

NextNext ==
  \/ \E self \in 1..Len(nodes) : CallNext(self)
  \/ Report

SpecNext == InitNext /\ [][NextNext]_vars

\* an attempt and the report the driver asks for between its turns or at its
\* end
NextReport ==
  \/ \E d \in ConfigValues, r \in ConfigValues : Reset(d, r)
  \/ \E envRaises \in BOOLEAN : Act(envRaises)
  \/ \E response \in ResponsesLive(MaxNodes - Len(nodes)), envRaises \in BOOLEAN :
       LLMReply(response, envRaises)
  \/ Report

SpecReport == Init /\ [][NextReport]_vars

(***************************************************************************)
(* The Executor on its own: fragments evaluated one after the other on     *)
(* the same variables.  evaluated holds the last two evaluations.          *)
(***************************************************************************)
\* the fragments evaluated: bindings of data, of a function, of a private
\* name and of the primitive's name, and reads of the names bound
ExecBlocks ==
  { <<Call("n", "run", <<NameAtom("observation")>>)>>,
    <<Expr("n", LitAtom("a"))>>,
    <<Expr("n", LitAtom("a")), Expr("n", LitAtom("b"))>>,
    <<Expr("n", NameAtom("run"))>>,
    <<Expr("_t", LitAtom("a"))>>,
    <<Expr("run", LitAtom("a"))>>,
    <<Call("", "run", <<NameAtom("n")>>)>>,
    <<Call("", "run", <<NameAtom("_t")>>)>>,
    <<Expr("k", LitAtom("b")), Call("", "foo", <<NameAtom("k")>>)>>,
    <<Expr("k", LitAtom("b")), Expr("", NameAtom("foo"))>>,
    <<Expr("k", LitAtom("b")), Expr(IntKey, LitAtom("a"))>> }

InitExecutor ==
  /\ pc = "exec"
  /\ variables = Seed
  /\ evaluated = <<>>
  /\ max_depth = 0
  /\ max_rewrite = 0
  /\ is_start = TRUE
  /\ nodes = <<>>
  /\ current_node = 0
  /\ attempt = 0
  /\ retry_hint_added = FALSE
  /\ prompts = <<>>
  /\ turn = NoTurn
  /\ input = <<>>
  /\ output = <<>>
  /\ tree = NoTree
  /\ mediator = NoMediator
  /\ env = NoEnv
  /\ llm = NoLLM

\* Executor.execute(code)
Evaluate(block, envRaises) ==
  /\ pc \in {"exec", "evaluated"}
  /\ pc' = "evaluated"
  /\ input' = block
  /\ output' = _run_block(block, variables, envRaises)
  /\ variables' = output'.vars
  /\ evaluated' =
       (IF evaluated = <<>> THEN <<>> ELSE <<evaluated[Len(evaluated)]>>)
       \o <<[block |-> block, pre |-> variables, envRaises |-> envRaises,
             success |-> output'.success]>>
  /\ UNCHANGED <<max_depth, max_rewrite, is_start, nodes, current_node, attempt,
                 retry_hint_added, prompts, turn>>
  /\ UNCHANGED <<tree, mediator, env, llm>>

NextExecutor ==
  \E block \in ExecBlocks, envRaises \in BOOLEAN : Evaluate(block, envRaises)

SpecExecutor == InitExecutor /\ [][NextExecutor]_vars

(***************************************************************************)
(* validate_blocks applied on its own to lists of blocks.                  *)
(***************************************************************************)
\* the longest list of blocks validated
MaxBlocks == 3

\* the blocks: a statement, two statements, a definition, a definition in a
\* compound statement, a syntax error, an open statement, the empty text
AStmt == Expr("n", LitAtom("a"))
BStmt == Expr("k", LitAtom("b"))

BlockPool ==
  { <<StmtLine(<<AStmt>>)>>, <<StmtLine(<<AStmt>>), StmtLine(<<BStmt>>)>>,
    <<DefLine>>, <<NestedDefLine>>, <<BadLine>>, <<OpenLine>>, <<>> }

InitValidate ==
  /\ pc = "blocks"
  /\ input \in SeqsUpTo(BlockPool, MaxBlocks)
  /\ output = ""
  /\ max_depth = 0
  /\ max_rewrite = 0
  /\ is_start = FALSE
  /\ nodes = <<>>
  /\ current_node = 0
  /\ variables = <<>>
  /\ attempt = 0
  /\ retry_hint_added = FALSE
  /\ prompts = <<>>
  /\ evaluated = <<>>
  /\ turn = NoTurn
  /\ tree = NoTree
  /\ mediator = NoMediator
  /\ env = NoEnv
  /\ llm = NoLLM

\* validate_blocks(blocks)
Validate ==
  /\ pc = "blocks"
  /\ pc' = "validated"
  /\ output' = validate_blocks(input)
  /\ UNCHANGED <<max_depth, max_rewrite, is_start, nodes, current_node,
                 variables, attempt, retry_hint_added, prompts, evaluated, turn,
                 input>>
  /\ UNCHANGED <<tree, mediator, env, llm>>

NextValidate == Validate

SpecValidate == InitValidate /\ [][NextValidate]_vars

(***************************************************************************)
(* split_blocks applied on its own to a source, and then to one of the     *)
(* blocks it returned.                                                     *)
(***************************************************************************)
\* the longest source split
MaxLines == 3

\* the lines: a statement, two statements on one line (a; b), a definition,
\* a syntax error, an open statement
SplitPool ==
  { StmtLine(<<AStmt>>), StmtLine(<<AStmt, BStmt>>), DefLine, BadLine,
    OpenLine }

InitSplit ==
  /\ pc = "source"
  /\ input \in SeqsUpTo(SplitPool, MaxLines)
  /\ output = <<>>
  /\ max_depth = 0
  /\ max_rewrite = 0
  /\ is_start = FALSE
  /\ nodes = <<>>
  /\ current_node = 0
  /\ variables = <<>>
  /\ attempt = 0
  /\ retry_hint_added = FALSE
  /\ prompts = <<>>
  /\ evaluated = <<>>
  /\ turn = NoTurn
  /\ tree = NoTree
  /\ mediator = NoMediator
  /\ env = NoEnv
  /\ llm = NoLLM

\* blocks = split_blocks(source)
Split ==
  /\ pc = "source"
  /\ pc' = "split"
  /\ output' = split_blocks(input)
  /\ UNCHANGED <<max_depth, max_rewrite, is_start, nodes, current_node,
                 variables, attempt, retry_hint_added, prompts, evaluated, turn,
                 input>>
  /\ UNCHANGED <<tree, mediator, env, llm>>

\* split_blocks(b) for a block b of the result
SplitAgain(i) ==
  /\ pc = "split"
  /\ output.exc = ""
  /\ i \in 1..Len(output.blocks)
  /\ pc' = "split again"
  /\ input' = output.blocks[i]
  /\ output' = split_blocks(output.blocks[i])
  /\ UNCHANGED <<max_depth, max_rewrite, is_start, nodes, current_node,
                 variables, attempt, retry_hint_added, prompts, evaluated, turn>>
  /\ UNCHANGED <<tree, mediator, env, llm>>

NextSplit ==
  \/ Split
  \/ \E i \in 1..MaxLines * 2 : SplitAgain(i)

SpecSplit == InitSplit /\ [][NextSplit]_vars

(***************************************************************************)
(* recode_plus: NodeTree and its Node objects, driven through              *)
(* create_root, add_node, update_status, find_next_pending and             *)
(* export_snapshot.                                                        *)
(***************************************************************************)
\* the most Node objects created
MaxTreeNodes == 3

\* the values of recode_plus.models.NodeStatus given to update_status
PlusStatus == {"pending", "stub", "completed"}

\* NodeTree._generate_id: the id of the k-th node created; the ids come from
\* uuid4 and are taken to be pairwise distinct
_generate_id(k) == <<"node_", k>>

\* Node(id=id, code=code, intent=intent)
Node(id) ==
  [id |-> id, parent |-> 0, children |-> <<>>, status |-> "pending",
   depth |-> 0]

\* Node.add_child putting the child first
add_childFirst(objs, self, child) ==
  [objs EXCEPT ![self].children = <<child>> \o @,
               ![child].parent = self,
               ![child].depth = objs[self].depth + 1]

\* Node.add_child
add_child(objs, self, child) ==
  [objs EXCEPT ![self].children = Append(@, child),
               ![child].parent = self,
               ![child].depth = objs[self].depth + 1]

\* self.nodes[node.id] = node
DictSet(d, key, value) ==
  [x \in DOMAIN d \cup {key} |-> IF x = key THEN value ELSE d[x]]

\* Node.to_dict giving the node's own id for its parent's
to_dictOwnId(objs, self) ==
  [id |-> objs[self].id,
   parent_id |-> objs[self].id,
   children_ids |-> [i \in 1..Len(objs[self].children) |->
                       objs[objs[self].children[i]].id],
   status |-> objs[self].status,
   depth |-> objs[self].depth]

\* Node.to_dict
to_dict(objs, self) ==
  [id |-> objs[self].id,
   parent_id |-> IF objs[self].parent # 0 THEN objs[objs[self].parent].id
                 ELSE "None",
   children_ids |-> [i \in 1..Len(objs[self].children) |->
                       objs[objs[self].children[i]].id],
   status |-> objs[self].status,
   depth |-> objs[self].depth]

\* the call of Node.next ended by RecursionError
RecursionError == -1

\* the statuses Node.next and find_next_pending look for
Waiting(node) == node.status \in {"pending", "stub"}

\* Node.next of recode_plus.  active holds the nodes whose call of next is on
\* the stack: the calls change nothing, so a call for a node of active
\* repeats for ever, and Python ends it with RecursionError.
RECURSIVE NodeNext(_, _, _)
RECURSIVE Scan(_, _, _, _)
RECURSIVE ScanOn(_, _, _, _, _)
RECURSIVE AfterChildren(_, _, _, _)
RECURSIVE AfterSiblings(_, _, _, _)

\* the loops of Node.next over children and over siblings[my_index + 1:]:
\* the first node waiting, or the first non-None next() of a node passed
Scan(objs, ids, from, active) ==
  IF from > Len(ids) THEN 0
  ELSE IF Waiting(objs[ids[from]]) THEN ids[from]
  ELSE ScanOn(objs, ids, from, active, NodeNext(objs, ids[from], active))

\* if next_child: return next_child, else the loop goes on
ScanOn(objs, ids, from, active, found) ==
  IF found # 0 THEN found ELSE Scan(objs, ids, from + 1, active)

\* Node.next after the loop over the children
AfterChildren(objs, self, active, found) ==
  IF found # 0 THEN found
  ELSE IF objs[self].parent = 0 THEN 0
  ELSE AfterSiblings(objs, self, active,
         Scan(objs, objs[objs[self].parent].children,
              IndexOf(objs[objs[self].parent].children, self) + 1, active))

\* Node.next after the loop over the siblings: return self.parent.next()
AfterSiblings(objs, self, active, found) ==
  IF found # 0 THEN found ELSE NodeNext(objs, objs[self].parent, active)

NodeNext(objs, self, active) ==
  IF self \in active THEN RecursionError
  ELSE AfterChildren(objs, self, active \cup {self},
         Scan(objs, objs[self].children, 1, active \cup {self}))

\* NodeTree.find_next_pending after self.current.next()
FromCurrent(t, found) ==
  IF found # 0 THEN found
  ELSE IF Waiting(t.objs[t.root]) THEN t.root
  ELSE NodeNext(t.objs, t.root, {})

\* NodeTree.find_next_pending: the node returned, 0 for None, or
\* RecursionError
find_next_pending(t) ==
  IF t.root = 0 THEN 0
  ELSE FromCurrent(t, IF t.current # 0 THEN NodeNext(t.objs, t.current, {})
                      ELSE 0)

\* NodeTree.export_snapshot
export_snapshot(t) ==
  [root_id |-> IF t.root # 0 THEN t.objs[t.root].id ELSE "None",
   current_id |-> IF t.current # 0 THEN t.objs[t.current].id ELSE "None",
   nodes |-> [id \in DOMAIN t.nodes |-> to_dict(t.objs, t.nodes[id])]]

InitTree ==
  /\ pc = "NodeTree"
  /\ tree = NoTree
  /\ mediator = NoMediator
  /\ env = NoEnv
  /\ llm = NoLLM
  /\ input = 0
  /\ output = 0
  /\ max_depth = 0
  /\ max_rewrite = 0
  /\ is_start = FALSE
  /\ nodes = <<>>
  /\ current_node = 0
  /\ variables = <<>>
  /\ attempt = 0
  /\ retry_hint_added = FALSE
  /\ prompts = <<>>
  /\ evaluated = <<>>
  /\ turn = NoTurn

\* tree.create_root(code, intent)
create_root ==
  /\ Len(tree.objs) < MaxTreeNodes
  /\ LET k == Len(tree.objs) + 1
         node == Node(_generate_id(k))
     IN /\ tree' = [objs |-> Append(tree.objs, node),
                    root |-> k,
                    nodes |-> DictSet(tree.nodes, node.id, k),
                    current |-> k]
        /\ output' = k
  /\ pc' = "create_root"
  /\ input' = 0
  /\ UNCHANGED <<max_depth, max_rewrite, is_start, nodes, current_node,
                 variables, attempt, retry_hint_added, prompts, evaluated, turn>>
  /\ UNCHANGED <<mediator, env, llm>>

\* tree.add_node(parent, code, intent)
add_node(parent) ==
  /\ Len(tree.objs) < MaxTreeNodes
  /\ parent \in 1..Len(tree.objs)
  /\ LET k == Len(tree.objs) + 1
         node == Node(_generate_id(k))
     IN /\ tree' = [tree EXCEPT
                      !.objs = add_child(Append(tree.objs, node), parent, k),
                      !.nodes = DictSet(tree.nodes, node.id, k)]
        /\ output' = k
  /\ pc' = "add_node"
  /\ input' = parent
  /\ UNCHANGED <<max_depth, max_rewrite, is_start, nodes, current_node,
                 variables, attempt, retry_hint_added, prompts, evaluated, turn>>
  /\ UNCHANGED <<mediator, env, llm>>

\* tree.update_status(node, status)
update_status(node, status) ==
  /\ node \in 1..Len(tree.objs)
  /\ tree' = [tree EXCEPT !.objs[node].status = status]
  /\ pc' = "update_status"
  /\ input' = node
  /\ output' = 0
  /\ UNCHANGED <<max_depth, max_rewrite, is_start, nodes, current_node,
                 variables, attempt, retry_hint_added, prompts, evaluated, turn>>
  /\ UNCHANGED <<mediator, env, llm>>

\* tree.find_next_pending(): the node found becomes self.current; None and
\* RecursionError leave it
FindNextPending ==
  /\ output' = find_next_pending(tree)
  /\ tree' = IF output' > 0 THEN [tree EXCEPT !.current = output'] ELSE tree
  /\ pc' = "find_next_pending"
  /\ input' = tree.current
  /\ UNCHANGED <<max_depth, max_rewrite, is_start, nodes, current_node,
                 variables, attempt, retry_hint_added, prompts, evaluated, turn>>
  /\ UNCHANGED <<mediator, env, llm>>

\* tree.export_snapshot()
ExportSnapshot ==
  /\ output' = export_snapshot(tree)
  /\ pc' = "export_snapshot"
  /\ input' = 0
  /\ UNCHANGED <<max_depth, max_rewrite, is_start, nodes, current_node,
                 variables, attempt, retry_hint_added, prompts, evaluated, turn,
                 tree>>
  /\ UNCHANGED <<mediator, env, llm>>

NextTree ==
  \/ create_root
  \/ \E parent \in 1..MaxTreeNodes : add_node(parent)
  \/ \E node \in 1..MaxTreeNodes, status \in PlusStatus :
       update_status(node, status)
  \/ FindNextPending
  \/ ExportSnapshot

SpecTree == InitTree /\ [][NextTree]_vars

(***************************************************************************)
(* MediatorAgent of recode_plus behind the WebSocket endpoint: one session *)
(* whose plan is a single node.  The handler of the socket is one task: it *)
(* reads a message, and for a user message it runs chat_stream to its end  *)
(* before it reads again.  POST /approve runs in a task of its own.  A     *)
(* tool call's id is its index in the node's list; the ids are distinct.   *)
(***************************************************************************)
MaxCalls == 2
MaxInbox == 1

\* the ids a client may name: those of the tool calls, and one more
ToolCallIds == 1..(MaxCalls + 1)

\* no call of approve_tool or reject_tool has been made
NoCall == [via |-> "", id |-> 0, approved |-> FALSE, ret |-> ""]

\* MediatorAgent.__init__ and the accepted socket: an empty tree, no approval
\* pending, the handler at websocket.receive_json
NewMediator ==
  [ pc                |-> "receive",
    status            |-> "",
    calls             |-> <<>>,
    at                |-> 0,
    \* the future of an id: "" not created, "pending", the result "True" or
    \* "False", or "cancelled" by the timeout of wait_for
    futures           |-> [id \in ToolCallIds |-> ""],
    pending_approvals |-> {},
    approved          |-> {},
    executed          |-> <<>>,
    inbox             |-> <<>>,
    last              |-> NoCall ]

user_message == [type |-> "user_message", tool_call_id |-> 0,
                 approved |-> FALSE, during |-> 0]
approval_response(id, approved, during) ==
  [type |-> "approval_response", tool_call_id |-> id, approved |-> approved,
   during |-> during]

\* chat_stream returns: the handler is back at websocket.receive_json
Returned_chat_stream(m) == [m EXCEPT !.pc = "receive"]

\* _execute_node passing every tool call to execute_tool without asking
ToolCallStepNoApproval(m, i) ==
  IF i > Len(m.calls)
    THEN Returned_chat_stream([m EXCEPT !.status = "completed"])
  ELSE [m EXCEPT !.at = i, !.status = "executing",
                 !.executed = Append(@, i), !.pc = "tool"]

\* _execute_node from tool call i of the node to its next await or its
\* return: a call that requires approval creates its future in
\* _wait_for_approval and awaits it; another one is passed to execute_tool
ToolCallStep(m, i) ==
  IF i > Len(m.calls)
    THEN Returned_chat_stream([m EXCEPT !.status = "completed"])
  ELSE IF m.calls[i]
    THEN [m EXCEPT !.at = i, !.futures[i] = "pending",
                   !.pending_approvals = @ \cup {i}, !.pc = "approval"]
  ELSE [m EXCEPT !.at = i, !.status = "executing",
                 !.executed = Append(@, i), !.pc = "tool"]

\* chat_stream(user_message): the first message plans the root, a PENDING
\* node with the tool calls of the plan, and executes it; a later message
\* finds the tree complete
chat_stream(m, calls) ==
  IF m.status = ""
    THEN ToolCallStep([m EXCEPT !.status = "pending", !.calls = calls], 1)
    ELSE Returned_chat_stream(m)

\* approve_tool / reject_tool: future.set_result on a future that the timeout
\* has cancelled raises InvalidStateError before the entry is deleted
set_result(m, id, value, via) ==
  IF id \in m.pending_approvals
    THEN IF m.futures[id] = "pending"
           THEN [m EXCEPT !.futures[id] = value,
                          !.pending_approvals = @ \ {id},
                          !.last = [via |-> via, id |-> id,
                                    approved |-> (value = "True"),
                                    ret |-> "True"]]
           ELSE [m EXCEPT !.last = [via |-> via, id |-> id,
                                    approved |-> (value = "True"),
                                    ret |-> "InvalidStateError"]]
    ELSE [m EXCEPT !.last = [via |-> via, id |-> id,
                             approved |-> (value = "True"), ret |-> "False"]]

approve_tool(m, id, via) == set_result(m, id, "True", via)
reject_tool(m, id, via) == set_result(m, id, "False", via)

\* the branch on the approved field of a request
Decide(m, id, approved, via) ==
  IF approved THEN approve_tool(m, id, via) ELSE reject_tool(m, id, via)

\* the handler after an approval_response: an exception closes the socket
AfterResponse(m) ==
  IF m.last.ret = "InvalidStateError" THEN [m EXCEPT !.pc = "closed"] ELSE m

\* every outcome of the wait but a rejection taken for an approval
ApprovedUnlessRejected(result) == result # "False"

\* approved = await self._wait_for_approval(id): the result of the future,
\* False after the timeout
Approved(result) == result = "True"

InitMediator ==
  /\ pc = "MediatorAgent"
  /\ mediator = NewMediator
  /\ tree = NoTree
  /\ env = NoEnv
  /\ llm = NoLLM
  /\ input = 0
  /\ output = 0
  /\ max_depth = 0
  /\ max_rewrite = 0
  /\ is_start = FALSE
  /\ nodes = <<>>
  /\ current_node = 0
  /\ variables = <<>>
  /\ attempt = 0
  /\ retry_hint_added = FALSE
  /\ prompts = <<>>
  /\ evaluated = <<>>
  /\ turn = NoTurn

\* the client sends a user message over the socket
SendMessage ==
  /\ Len(mediator.inbox) < MaxInbox
  /\ mediator' = [mediator EXCEPT !.inbox = Append(@, user_message)]
  /\ UNCHANGED <<pc, input, output, agent, tree, env, llm>>

\* the client sends an approval_response over the socket, for the tool call
\* of the request it was shown last or for an id the session does not know;
\* during: the tool call whose approval chat_stream awaits at that moment,
\* or 0
SendResponse(id, approved) ==
  /\ Len(mediator.inbox) < MaxInbox
  /\ id = mediator.at \/ id = MaxCalls + 1
  /\ mediator' =
       [mediator EXCEPT !.inbox =
          Append(@, approval_response(id, approved,
                      IF mediator.pc = "approval" THEN mediator.at ELSE 0))]
  /\ UNCHANGED <<pc, input, output, agent, tree, env, llm>>

\* websocket_endpoint: data = await websocket.receive_json() and the branch
\* taken for it, up to the next await that suspends the handler
Receive(calls) ==
  /\ mediator.pc = "receive"
  /\ mediator.inbox # <<>>
  /\ LET data == Head(mediator.inbox)
         m == [mediator EXCEPT !.inbox = Tail(@)]
     IN mediator' =
          IF data.type = "user_message" THEN chat_stream(m, calls)
          ELSE AfterResponse(Decide(m, data.tool_call_id, data.approved, "ws"))
  /\ UNCHANGED <<pc, input, output, agent, tree, env, llm>>

\* POST /sessions/{id}/approve
PostApprove(id, approved) ==
  /\ mediator' = Decide(mediator, id, approved, "http")
  /\ UNCHANGED <<pc, input, output, agent, tree, env, llm>>

\* the timeout of asyncio.wait_for passes: the future is cancelled, and the
\* task that awaits it is scheduled
Timeout ==
  /\ mediator.pc = "approval"
  /\ mediator.futures[mediator.at] = "pending"
  /\ mediator' = [mediator EXCEPT !.futures[mediator.at] = "cancelled"]
  /\ UNCHANGED <<pc, input, output, agent, tree, env, llm>>

\* _wait_for_approval returns into _execute_node: after the timeout the entry
\* is deleted; not approved: REJECTED and return; approved: the call is
\* passed to execute_tool
WaitReturns ==
  /\ mediator.pc = "approval"
  /\ mediator.futures[mediator.at] # "pending"
  /\ LET id == mediator.at
         m == [mediator EXCEPT !.pending_approvals =
                 IF mediator.futures[id] = "cancelled" THEN @ \ {id} ELSE @]
     IN mediator' =
          IF Approved(m.futures[id])
            THEN [m EXCEPT !.approved = @ \cup {id}, !.status = "executing",
                           !.executed = Append(@, id), !.pc = "tool"]
            ELSE Returned_chat_stream([m EXCEPT !.status = "rejected"])
  /\ UNCHANGED <<pc, input, output, agent, tree, env, llm>>

\* execute_tool returns: on success the loop goes to the next tool call, on
\* failure the node is ERROR
ToolReturns(success) ==
  /\ mediator.pc = "tool"
  /\ mediator' =
       IF success THEN ToolCallStep(mediator, mediator.at + 1)
       ELSE Returned_chat_stream([mediator EXCEPT !.status = "error"])
  /\ UNCHANGED <<pc, input, output, agent, tree, env, llm>>

NextMediator ==
  \/ SendMessage
  \/ \E id \in ToolCallIds, approved \in BOOLEAN : SendResponse(id, approved)
  \/ \E calls \in SeqsUpTo(BOOLEAN, MaxCalls) : Receive(calls)
  \/ \E id \in ToolCallIds, approved \in BOOLEAN : PostApprove(id, approved)
  \/ Timeout
  \/ WaitReturns
  \/ \E success \in BOOLEAN : ToolReturns(success)

SpecMediator == InitMediator /\ [][NextMediator]_vars

(***************************************************************************)
(* Properties.                                                             *)
(***************************************************************************)
\* the fragment the turn evaluated and what exec did with it
LastBlock == Stmts(nodes[turn.node].code)
LastExec ==
  Exec(Merge(_base_globals, turn.pre), LastBlock, <<>>, turn.envRaises)

\* the name is in call position in some statement of the block
Called(block, name) == \E i \in 1..Len(block) : block[i].fn = name

\* the evaluator's marker of a stub
IsStubMarker(error) == error # <<>> /\ error[1] = "NeedExpansion"

\* C1: when the evaluation of a fragment fails on an unbound identifier that
\* the fragment calls, the evaluator returns success = false with the marker
\* NeedExpansion naming that identifier, and the node becomes STUB.
C1_StubClassification ==
  turn.evaluated =>
    \A f \in Names :
      (LastExec.exc = NameErrorExc(f) /\ Called(LastBlock, f)) =>
         /\ turn.success = FALSE
         /\ turn.error = NeedExpansionText(Id[f])
         /\ nodes[turn.node].status = "STUB"

C1_Witness ==
  /\ turn.evaluated
  /\ LastExec.exc = NameErrorExc("foo")
  /\ Called(LastBlock, "foo")
  /\ nodes[turn.node].status = "STUB"

\* C2: when the evaluation of a fragment fails on an unbound identifier that
\* the fragment only references and never calls, the error text is
\* NameError: ... and the node becomes ERROR, never STUB.
C2_BareReferenceIsError ==
  turn.evaluated =>
    \A u \in Names :
      (LastExec.exc = NameErrorExc(u) /\ ~Called(LastBlock, u)) =>
         /\ turn.success = FALSE
         /\ turn.error = <<"NameError", ": ">> \o NameErrorExc(u).msg
         /\ nodes[turn.node].status = "ERROR"

\* the status a node had before a step; a node the step creates is PENDING
OldStatus(k) == IF k <= Len(nodes) THEN nodes[k].status ELSE "PENDING"

C3_Step ==
  \A k \in 1..Len(nodes') :
    OldStatus(k) # nodes'[k].status =>
      \/ /\ OldStatus(k) = "PENDING" /\ nodes'[k].status = "COMPLETED"
         /\ turn'.evaluated /\ turn'.node = k /\ turn'.success
      \/ /\ OldStatus(k) = "PENDING" /\ nodes'[k].status = "ERROR"
         /\ turn'.evaluated /\ turn'.node = k /\ ~turn'.success
         /\ ~IsStubMarker(turn'.error)
      \/ /\ OldStatus(k) = "PENDING" /\ nodes'[k].status = "STUB"
         /\ turn'.evaluated /\ turn'.node = k /\ ~turn'.success
         /\ IsStubMarker(turn'.error)
      \/ /\ OldStatus(k) = "STUB" /\ nodes'[k].status = "SKIP"
         /\ turn'.expanded = "empty" /\ k = current_node

\* C3: a node's status changes only PENDING -> COMPLETED after a successful
\* evaluation of it, PENDING -> ERROR after a genuine failure, PENDING -> STUB
\* after a failure marked as needing expansion, and STUB -> SKIP when its
\* expansion returned no statement; COMPLETED, ERROR and SKIP are never left.
C3_StatusTransitions == [][C3_Step]_vars

C3_Witness ==
  /\ \E k \in 1..Len(nodes) : nodes[k].status = "SKIP"
  /\ \E k \in 1..Len(nodes) : nodes[k].status = "COMPLETED"
  /\ \E k \in 1..Len(nodes) : nodes[k].status = "ERROR"

\* depth-first pre-order of the subtree of a node, children in list order
RECURSIVE Preorder(_, _), PreorderAll(_, _)
Preorder(ns, id) == <<id>> \o PreorderAll(ns, ns[id].children)
PreorderAll(ns, ids) ==
  IF ids = <<>> THEN <<>>
  ELSE Preorder(ns, ids[1]) \o PreorderAll(ns, Tail(ids))

Range(seq) == {seq[i] : i \in 1..Len(seq)}

\* C4: the nodes are visited in depth-first pre-order, each once: what has
\* been evaluated is at every moment the beginning of the tree's pre-order,
\* and when next() returns None it is the whole of it.
C4_TraversalPreorder ==
  nodes # <<>> =>
    LET order == Preorder(nodes, 1)
    IN /\ Len(evaluated) <= Len(order)
       /\ evaluated = SubSeq(order, 1, Len(evaluated))
       /\ (turn.why = "exhausted" /\ \A k \in 1..Len(nodes) : nodes[k].status # "ERROR")
             => evaluated = order /\ Range(order) = 1..Len(nodes)

C4_Witness ==
  /\ turn.why = "exhausted"
  /\ evaluated = <<1, 2, 4, 3>>
  /\ nodes[4].parent = 2

\* the siblings placed before a node in its parent's list
PrecedingSiblings(ns, k) ==
  IF ns[k].parent = 0 THEN {}
  ELSE LET siblings == ns[ns[k].parent].children
       IN {siblings[i] : i \in 1..(IndexOf(siblings, k) - 1)}

Terminal == {"COMPLETED", "ERROR", "SKIP"}

\* C6 as stated: when a node is evaluated, its preceding siblings and all
\* their descendants are COMPLETED, ERROR or SKIP.
C6_PrecedingSubtreeTerminal ==
  turn.evaluated =>
    \A p \in PrecedingSiblings(nodes, turn.node) :
      \A d \in Range(Preorder(nodes, p)) : nodes[d].status \in Terminal

\* C6 amended: when a node is evaluated, each of its preceding siblings and
\* each descendant of them is COMPLETED, ERROR or SKIP, or is a STUB node that
\* was expanded into children; none of them is PENDING or an unexpanded STUB.
C6_PrecedingSubtreeDone ==
  turn.evaluated =>
    \A p \in PrecedingSiblings(nodes, turn.node) :
      \A d \in Range(Preorder(nodes, p)) :
        \/ nodes[d].status \in Terminal
        \/ nodes[d].status = "STUB" /\ nodes[d].children # <<>>

C6_Witness ==
  /\ turn.evaluated
  /\ \E p \in PrecedingSiblings(nodes, turn.node) :
       nodes[p].status = "STUB" /\ nodes[p].children # <<>>

C7_Step ==
  (/\ pc = "ready" /\ is_start
   /\ nodes[current_node].status = "STUB"
   /\ nodes[current_node].depth >= max_depth)
  => /\ prompts' = prompts
     /\ nodes' = nodes
     /\ evaluated' = evaluated
     /\ current_node' = 0
     /\ pc' = "finished"
     /\ turn'.ret = "FINISH"

\* C7: a turn that starts on a STUB node whose depth is at least max_depth
\* sends no request to the model, attaches no child, evaluates nothing, sets
\* the current node to None and returns [FINISH].
C7_DepthGuard == [][C7_Step]_vars

C7_Witness ==
  /\ pc = "finished"
  /\ turn.why = "depth"
  /\ nodes[turn.node].status = "STUB"
  /\ nodes[turn.node].depth >= max_depth
  /\ nodes[turn.node].depth >= 1

C8_Step ==
  /\ (\E k \in 1..Len(nodes) : nodes[k].status = "ERROR")
       => /\ nodes' = nodes
          /\ prompts' = prompts
          /\ evaluated' = evaluated
          /\ variables' = variables
          /\ pc' = "finished"
          /\ turn'.ret = "FINISH"
  /\ \A k \in 1..Len(nodes') :
       (nodes'[k].status = "ERROR" /\ OldStatus(k) # "ERROR")
         => /\ turn'.error # <<>>
            /\ nodes'[k].error = turn'.error

\* C8: once a node is ERROR nothing more is evaluated, no request is sent to
\* the model, no node is added or changes, and the next call of act returns
\* [FINISH]; the node that becomes ERROR holds the evaluation's error text.
C8_ErrorIsFatal == [][C8_Step]_vars

C8_Witness ==
  /\ pc = "finished"
  /\ turn.why = "error"
  /\ Len(nodes) >= 2
  /\ \E k \in 1..Len(nodes) : nodes[k].status = "ERROR" /\ nodes[k].error # <<>>

\* the requests sent for the expansion of node k
PromptsOf(k) == SelectSeq(prompts, LAMBDA p : p.node = k)

\* C9 as stated: with max_rewrite = 2, an expansion whose replies all fail
\* validation returns None only after a third request, which carries the hint.
C9_ThirdRequest ==
  (max_rewrite = 2 /\ turn.why = "null") =>
     /\ Len(PromptsOf(turn.node)) = 3
     /\ PromptsOf(turn.node)[3].hint

C10_Step ==
  (pc = "llm" /\ attempt' = attempt + 1 /\ attempt' >= max_rewrite)
  => /\ pc' = "finished"
     /\ turn'.ret = "FINISH"
     /\ current_node' = 0
     /\ evaluated' = evaluated
     /\ Len(nodes') = Len(nodes)
     /\ \A k \in 1..Len(nodes) :
          /\ nodes'[k].children = nodes[k].children
          /\ nodes'[k].status = nodes[k].status
     /\ nodes'[current_node].status = "STUB"

\* C10: when _expand returns None because the retry budget is used up, act
\* returns [FINISH] in that turn, no child is attached, the node stays STUB,
\* no node changes status and no fragment is evaluated.
C10_NullEndsAttempt == [][C10_Step]_vars

C10_Witness ==
  /\ pc = "finished"
  /\ turn.why = "null"
  /\ attempt >= max_rewrite
  /\ nodes[turn.node].status = "STUB"
  /\ nodes[turn.node].children = <<>>

\* a comes before b in the pre-order of the tree
Precedes(ns, a, b) ==
  LET order == Preorder(ns, 1)
  IN IndexOf(order, a) < IndexOf(order, b)

\* C5 as stated: next() on a just-finished node never returns a node that
\* precedes it in pre-order, whatever the statuses.
C5_ForwardOnly ==
  (pc = "called" /\ nodes[input].status # "PENDING") =>
     (output = 0 \/ ~Precedes(nodes, output, input))

\* C5 amended: next() on a just-finished node n returns None or a PENDING
\* node, and when no node that precedes n in pre-order is PENDING the node
\* it returns comes after n; a PENDING node that precedes n can be returned.
C5_ForwardWhenNoEarlierPending ==
  (pc = "called" /\ nodes[input].status # "PENDING") =>
     /\ output # 0 => nodes[output].status = "PENDING"
     /\ (\A m \in 1..Len(nodes) :
           Precedes(nodes, m, input) => nodes[m].status # "PENDING")
          => (output = 0 \/ Precedes(nodes, input, output))

C5_Witness ==
  /\ pc = "called"
  /\ nodes[input].status # "PENDING"
  /\ \A m \in 1..Len(nodes) :
       Precedes(nodes, m, input) => nodes[m].status # "PENDING"
  /\ output # 0
  /\ Precedes(nodes, input, output)
  /\ nodes[output].parent # input
  /\ nodes[output].parent # nodes[input].parent

\* the sibling placed right after a node in its parent's list, or 0
NextSibling(ns, k) ==
  IF ns[k].parent = 0 THEN 0
  ELSE LET siblings == ns[ns[k].parent].children
           i == IndexOf(siblings, k)
       IN IF i < Len(siblings) THEN siblings[i + 1] ELSE 0

C11_Step ==
  (pc = "llm" /\ turn'.reply = "empty") =>
    LET k == current_node
        pend == {m \in 1..Len(nodes) : nodes[m].status = "PENDING"}
    IN /\ nodes'[k].status = "SKIP"
       /\ nodes'[k].children = <<>>
       /\ Len(nodes') = Len(nodes)
       /\ prompts' = prompts
       /\ turn'.why # "null"
       /\ IF pend = {}
            THEN /\ evaluated' = evaluated
                 /\ pc' = "finished" /\ turn'.why = "exhausted"
            ELSE \E m \in pend :
                   /\ evaluated' = Append(evaluated, m)
                   /\ Precedes(nodes, k, m)
                   /\ \A j \in pend \ {m} : Precedes(nodes, m, j)
                   /\ NextSibling(nodes, k) # 0 => m = NextSibling(nodes, k)

\* C11: when the reply's execute section is missing or empty, the expansion
\* is not a validation failure and does not end the attempt: no retry is
\* requested, the node becomes SKIP with no children, and the turn goes on to
\* evaluate the first PENDING node after it in pre-order (its next sibling when
\* it has one); with no PENDING node left act returns [FINISH].
C11_EmptyExpansionSkips == [][C11_Step]_vars

C11_Witness ==
  /\ turn.reply = "empty"
  /\ turn.evaluated
  /\ \E p \in PrecedingSiblings(nodes, turn.node) :
       /\ nodes[p].status = "SKIP"
       /\ NextSibling(nodes, p) = turn.node

\* the nodes an expansion can be requested for
Expandable == {k \in 1..Len(nodes) : nodes[k].depth < max_depth}

Bound(block) == {block[i].target : i \in 1..Len(block)} \ {""}

\* the globals exec leaves at the end of a recorded evaluation, and the
\* globals a recorded evaluation starts from
GlobalsAfter(e) == Exec(Merge(_base_globals, e.pre), e.block, <<>>, e.envRaises).g
GlobalsBefore(e) == Merge(_base_globals, e.pre)

IsData(value) == value \notin {RunFn, ReMod}
Kept(v, value) ==
  Id[v][1] # "_" /\ v \notin DOMAIN _base_globals /\ IsData(value)

C14_Step ==
  is_start =>
    /\ evaluated' = evaluated => variables' = variables
    /\ evaluated' # evaluated => turn'.pre = variables

\* C14: once the attempt is seeded, only the evaluation of a fragment changes
\* the variables: a step that evaluates nothing (a request to the model, a
\* retry, the end of an expansion) leaves every binding as it was and adds
\* none, and an evaluation starts from the variables the last one left.
C14_ExpansionKeepsNamespace == [][C14_Step]_vars

\* C15: a failure of the model client during an expansion ends the attempt
\* inside act: act returns [FINISH] and no exception leaves it.
C15_ClientFailureFinishes ==
  /\ pc # "raised"
  /\ turn.why = "llm" => (pc = "finished" /\ turn.ret = "FINISH")

C16_Step ==
  (pc = "ready" /\ turn.evaluated /\ LastExec.limit) =>
     /\ evaluated' = evaluated
     /\ prompts' = prompts
     /\ nodes' = nodes
     /\ pc' = "finished"
     /\ turn'.ret = "FINISH"

\* C16: after a turn in whose fragment a call of the primitive met the
\* environment's StepLimitError, the attempt ends: the next call of act
\* returns [FINISH], evaluates no node (neither the same again nor a later
\* one) and sends no request to the model.
C16_StepLimitEndsAttempt == [][C16_Step]_vars

\* the children of a node rebuilt from the edges of a snapshot
ChildrenFromEdges(edges, p) ==
  LET mine == SelectSeq(edges, LAMBDA e : e[1] = p)
  IN [i \in 1..Len(mine) |-> mine[i][2]]

\* C17: the snapshot holds every node of the tree once, every node but the
\* root in exactly one edge, and the children lists rebuilt from its edges
\* and the statuses read from its nodes are those of the live tree.
C17_SnapshotRoundTrip ==
  pc = "reported" =>
    /\ output.tree.root_id = 1
    /\ DOMAIN output.tree.nodes = 1..Len(nodes)
    /\ \A id \in 1..Len(nodes) :
         /\ output.tree.nodes[id].status = nodes[id].status
         /\ ChildrenFromEdges(output.tree.edges, id) = nodes[id].children
         /\ id # 1 =>
              Cardinality({i \in 1..Len(output.tree.edges) :
                             output.tree.edges[i][2] = id}) = 1
    /\ \A i \in 1..Len(output.tree.edges) : output.tree.edges[i][2] # 1

C17_Witness ==
  /\ pc = "reported"
  /\ Len(nodes) = 4
  /\ Len(nodes[1].children) = 2
  /\ Len(nodes[2].children) = 1
  /\ output.tree.edges = <<<<1, 2>>, <<1, 3>>, <<2, 4>>>>
  /\ nodes[2].status = "STUB" /\ nodes[4].status = "ERROR"

\* the block compiles as complete statements; it holds a definition
Compiles(block) == Compile(block) = "code"
Offending(blocks) ==
  {i \in 1..Len(blocks) : ~Compiles(blocks[i]) \/ HasFunctionDef(blocks[i])}

\* C18 as stated: the list is accepted exactly when every block compiles and
\* none holds a definition; a list holding a definition raises ValueError
\* whatever its other blocks, a list holding a block that does not compile
\* raises SyntaxError.
C18_RejectionByKind ==
  pc = "validated" =>
    /\ output = "" <=> Offending(input) = {}
    /\ (\E i \in 1..Len(input) : HasFunctionDef(input[i]))
         => output = "ValueError"
    /\ (\E i \in 1..Len(input) : ~Compiles(input[i]))
         => output = "SyntaxError"

\* C18 amended: the list is accepted exactly when every block compiles and
\* none holds a definition; otherwise the exception is that of the first
\* offending block in list order: SyntaxError when that block does not
\* compile as complete statements, ValueError when it compiles and holds a
\* definition.
C18_RejectionByFirstOffender ==
  pc = "validated" =>
    /\ output = "" <=> Offending(input) = {}
    /\ Offending(input) # {} =>
         LET i == CHOOSE i \in Offending(input) :
                    \A j \in Offending(input) : i <= j
         IN output = IF Compiles(input[i]) THEN "ValueError" ELSE "SyntaxError"

C18_Witness ==
  /\ pc = "validated"
  /\ input = <<<<StmtLine(<<AStmt>>)>>, <<NestedDefLine>>, <<OpenLine>>>>
  /\ output = "ValueError"

\* C19: splitting a block that split_blocks returned gives that one block,
\* unchanged.
C19_SplitIdempotent ==
  pc = "split again" => output = [exc |-> "", blocks |-> <<input>>]

\* the number of positions of a children list holding node k
Occurrences(ids, k) == Cardinality({i \in 1..Len(ids) : ids[i] = k})

\* the root has no parent and depth 0; every other node has a parent, is
\* once in its parent's children and in no other list, one level below
\* its parent
StrictRootedTree ==
  \A k \in 1..Len(nodes) :
    IF k = 1
      THEN /\ nodes[k].parent = 0
           /\ nodes[k].depth = 0
           /\ \A p \in 1..Len(nodes) : Occurrences(nodes[p].children, k) = 0
      ELSE /\ nodes[k].parent \in 1..Len(nodes)
           /\ \A p \in 1..Len(nodes) :
                Occurrences(nodes[p].children, k)
                  = IF p = nodes[k].parent THEN 1 ELSE 0
           /\ nodes[k].depth = nodes[nodes[k].parent].depth + 1

\* a step leaves the parent and the depth of every node it found
DepthKept ==
  \A k \in 1..Len(nodes) :
    /\ k <= Len(nodes')
    /\ nodes'[k].depth = nodes[k].depth
    /\ nodes'[k].parent = nodes[k].parent

\* C20: in every reachable state the code tree is a strict rooted tree (root
\* without parent at depth 0; every other node once in the children of its
\* one parent, in no other list, at its parent's depth plus 1), and no step
\* changes the depth of a node.
C20_StrictRootedTree == []StrictRootedTree /\ [][DepthKept]_vars

\* a tree of four nodes with a grandchild of the root, after a further step
C20_Witness ==
  /\ Len(nodes) = 4
  /\ \E k \in 1..Len(nodes) : nodes[k].depth = 2
  /\ \E k \in 1..Len(nodes) : nodes[k].status \in {"COMPLETED", "ERROR", "SKIP"}
                               /\ nodes[k].depth = 2


\* C21: in every reachable state a node's error text is set if and only if
\* the node's status is ERROR.
C21_ErrorTextIffError ==
  \A k \in 1..Len(nodes) : (nodes[k].error # <<>>) <=> (nodes[k].status = "ERROR")

\* a failed child beside nodes in other statuses, before the turn that finishes
C21_Witness ==
  /\ pc = "ready"
  /\ \E k \in 2..Len(nodes) : nodes[k].status = "ERROR" /\ nodes[k].error # <<>>
  /\ \E k \in 1..Len(nodes) : nodes[k].status = "STUB" /\ nodes[k].error = <<>>


\* the expansion of node k passed validation: it received children or was
\* skipped
Validated(k) == nodes[k].children # <<>> \/ nodes[k].status = "SKIP"

\* the replies received so far for the expansion of node k: the requests
\* sent for it, less the one still unanswered
Received(k) ==
  Cardinality({i \in 1..Len(prompts) : prompts[i].node = k})
    - (IF pc \in {"llm", "raised"} /\ current_node = k THEN 1 ELSE 0)

\* C22: a node's reasoning text is recorded only when an expansion of that
\* node passed validation; it is empty for a node never expanded and for a
\* node whose replies all failed validation.
C22_ThoughtOnlyAfterValidation ==
  \A k \in 1..Len(nodes) : nodes[k].thought # "" => Validated(k)

\* C22, amended: a node's reasoning text is recorded as soon as a reply for
\* its expansion is received, before validation; it is empty for every node
\* for which no reply has been received.
C22_ThoughtOnlyAfterReply ==
  \A k \in 1..Len(nodes) : nodes[k].thought # "" => Received(k) >= 1

\* an expansion abandoned after invalid replies only, whose node keeps the
\* reasoning of a rejected reply, beside a node that was never expanded
C22_Witness ==
  /\ pc = "finished"
  /\ turn.why = "null"
  /\ \E k \in 1..Len(nodes) :
       /\ nodes[k].thought # ""
       /\ ~Validated(k)
       /\ Received(k) >= 1
  /\ \E k \in 1..Len(nodes) : nodes[k].thought = "" /\ Received(k) = 0


\* add_node(parent, ..) appended a new PENDING node to parent's children, one
\* level below it, and registered it under its id
AddNodeStep ==
  pc' = "add_node" =>
    LET k == Len(tree'.objs)
        parent == input'
    IN /\ k = Len(tree.objs) + 1
       /\ output' = k
       /\ tree'.objs[parent].children = Append(tree.objs[parent].children, k)
       /\ tree'.objs[k].parent = parent
       /\ tree'.objs[k].depth = tree'.objs[parent].depth + 1
       /\ tree'.objs[k].status = "pending"
       /\ tree'.objs[k].id \in DOMAIN tree'.nodes
       /\ tree'.nodes[tree'.objs[k].id] = k

\* create_root made a new PENDING node without parent at depth 0, the root and
\* the current node of the tree, and registered it under its id
CreateRootStep ==
  pc' = "create_root" =>
    LET k == Len(tree'.objs)
    IN /\ k = Len(tree.objs) + 1
       /\ tree'.objs[k].parent = 0
       /\ tree'.objs[k].depth = 0
       /\ tree'.objs[k].status = "pending"
       /\ tree'.root = k
       /\ tree'.current = k
       /\ tree'.objs[k].id \in DOMAIN tree'.nodes
       /\ tree'.nodes[tree'.objs[k].id] = k

\* node k is once in the children of its parent and in no other list
Attached(k) ==
  /\ tree.objs[k].parent \in 1..Len(tree.objs)
  /\ \A p \in 1..Len(tree.objs) :
       Occurrences(tree.objs[p].children, k)
         = IF p = tree.objs[k].parent THEN 1 ELSE 0

\* the dict holds every node created, under its id
MapHoldsAll ==
  /\ \A k \in 1..Len(tree.objs) :
       tree.objs[k].id \in DOMAIN tree.nodes /\ tree.nodes[tree.objs[k].id] = k
  /\ Cardinality(DOMAIN tree.nodes) = Len(tree.objs)

\* every node but the tree's root is attached
NonRootAttached ==
  \A k \in 1..Len(tree.objs) : k # tree.root => Attached(k)

\* every node with a parent is attached; a node without one is in no list
ChildrenAttached ==
  \A k \in 1..Len(tree.objs) :
    IF tree.objs[k].parent # 0 THEN Attached(k)
    ELSE \A p \in 1..Len(tree.objs) : Occurrences(tree.objs[p].children, k) = 0

\* C23: add_node appends the new node as the last child of parent, sets its
\* parent link and its depth to parent.depth + 1, leaves it PENDING and
\* registers it in the id-to-node map; after any sequence of create_root and
\* add_node calls every non-root node occurs exactly once in its parent's
\* children and the map holds every created node.
C23_NonRootNodesAttached ==
  [](NonRootAttached /\ MapHoldsAll) /\ [][AddNodeStep]_vars

\* C23, amended: as above, for the nodes made by add_node; a node made by
\* create_root has no parent, is in no children list and stays in the map
\* when a later create_root replaces it as the root.
C23_AddedNodesAttached ==
  [](ChildrenAttached /\ MapHoldsAll) /\ [][AddNodeStep /\ CreateRootStep]_vars

\* add_node has just given a second child to a node
C23_Witness ==
  /\ pc = "add_node"
  /\ Len(tree.objs) = 3
  /\ Len(tree.objs[input].children) = 2
  /\ tree.objs[input].children[2] = output


\* create_root was called once
SingleRoot ==
  Cardinality({k \in 1..Len(tree.objs) : tree.objs[k].parent = 0}) = 1

\* C24: after any sequence of add_node and update_status calls,
\* find_next_pending() returns a node whose status is PENDING or STUB
\* whenever one exists in the tree and records it as the tree's current node;
\* a node whose status is COMPLETED is never returned.  (The order of the
\* choice is left out: the statement fails without it.)
C24_FindsWaitingNode ==
  ( /\ pc = "find_next_pending"
    /\ SingleRoot
    /\ \E k \in 1..Len(tree.objs) : Waiting(tree.objs[k]) )
  => /\ output \in 1..Len(tree.objs)
     /\ Waiting(tree.objs[output])
     /\ tree.current = output


\* the entry of the snapshot for node k agrees with the live node
EntryAgrees(k) ==
  LET node == tree.objs[k]
      entry == output.nodes[node.id]
  IN /\ entry.id = node.id
     /\ entry.status = node.status
     /\ entry.parent_id = (IF node.parent = 0 THEN "None"
                           ELSE tree.objs[node.parent].id)
     /\ Len(entry.children_ids) = Len(node.children)
     /\ \A i \in 1..Len(node.children) :
          entry.children_ids[i] = tree.objs[node.children[i]].id

\* C25: export_snapshot() holds exactly one entry per node ever created in
\* the tree, and each entry's status, parent_id and ordered children_ids are
\* those of the live node at the time of the call.
C25_SnapshotMatchesTree ==
  pc = "export_snapshot" =>
    /\ Cardinality(DOMAIN output.nodes) = Len(tree.objs)
    /\ \A k \in 1..Len(tree.objs) :
         tree.objs[k].id \in DOMAIN output.nodes /\ EntryAgrees(k)

\* a snapshot of a root with two children, one of them completed
C25_Witness ==
  /\ pc = "export_snapshot"
  /\ Len(tree.objs) = 3
  /\ tree.objs[1].children = <<2, 3>>
  /\ tree.objs[2].status = "completed"
  /\ output.nodes[tree.objs[3].id].parent_id = tree.objs[1].id


\* the turn in progress sent a request to the model and received the reply
\* that ended its expansion
TurnExpanded == turn.expanded \in {"children", "empty", "null"}

\* C26: in a single turn the orchestrator performs either an expansion of the
\* current STUB node or an evaluation of the current PENDING node, never
\* both.
C26_ExpansionOrEvaluation == ~(TurnExpanded /\ turn.evaluated)

\* a step evaluates at most one node; a node it marks STUB gets no request in
\* that step and the turn ends; the step that attaches children goes on, in
\* the same turn, to evaluate the first of them
C26_Step ==
  /\ Len(evaluated') <= Len(evaluated) + 1
  /\ Len(prompts') <= Len(prompts) + 1
  /\ \A k \in 1..Len(nodes') :
       ( /\ nodes'[k].status = "STUB"
         /\ (k > Len(nodes) \/ nodes[k].status = "PENDING") )
       => /\ pc' = "ready"
          /\ prompts' = prompts
          /\ evaluated' = Append(evaluated, k)
  /\ (pc = "llm" /\ Len(nodes') > Len(nodes))
       => /\ nodes'[current_node].children[1] = Len(nodes) + 1
          /\ turn'.expanded = "children"
          /\ turn'.evaluated
          /\ turn'.node = Len(nodes) + 1
          /\ evaluated' = Append(evaluated, Len(nodes) + 1)

\* C26, amended: a turn expands at most one node and evaluates at most one;
\* a turn that expands the current STUB node advances and evaluates the node
\* it reaches in the same turn (the first new child when children were
\* attached); a node marked STUB by an evaluation is expanded only in a later
\* turn.
C26_ExpansionThenEvaluation == [][C26_Step]_vars

\* a turn that expanded a node, evaluated its first child and marked that
\* child STUB, leaving its expansion to the next turn
C26_Witness ==
  /\ pc = "ready"
  /\ turn.expanded = "children"
  /\ turn.evaluated
  /\ nodes[turn.node].status = "STUB"
  /\ nodes[turn.node].parent = prompts[Len(prompts)].node
  /\ Len(nodes[nodes[turn.node].parent].children) = 2


\* the calls of _expand made for node k: each starts with a request that
\* carries no corrective instruction
Expansions(k) ==
  Cardinality({i \in 1..Len(prompts) : prompts[i].node = k /\ ~prompts[i].hint})

\* C27: in an attempt each node's fragment is evaluated at most once and each
\* node is expanded at most once; a STUB node that has received children is
\* never evaluated again and never becomes the current node again.
C27_OnceEach ==
  /\ \A i, j \in 1..Len(evaluated) : evaluated[i] = evaluated[j] => i = j
  /\ \A k \in 1..Len(nodes) :
       /\ Expansions(k) <= 1
       /\ nodes[k].children # <<>> =>
            /\ current_node # k
            /\ nodes[k].status = "STUB"
            /\ Expansions(k) = 1
            /\ \E i \in 1..Len(evaluated) :
                 /\ evaluated[i] = k
                 /\ \A c \in Range(nodes[k].children) :
                      \A j \in 1..Len(evaluated) : evaluated[j] = c => i < j

\* traversal has come back up past a node with children: both children of
\* the root are done, one of them expanded into a child of its own
C27_Witness ==
  /\ Len(nodes) = 4
  /\ Len(nodes[1].children) = 2
  /\ \E k \in 2..3 : nodes[k].children # <<>>
  /\ Len(evaluated) = 4
  /\ pc = "finished"
  /\ turn.why = "exhausted"


\* the evaluation made last
LastEvaluation == evaluated[Len(evaluated)]

\* C28: when the evaluation of a fragment fails, the executor's variables are
\* exactly those it had before the evaluation: no name the fragment assigned
\* is added or rebound; bindings are stored only on clean completion.
C28_FailureKeepsVariables ==
  (pc = "evaluated" /\ ~LastEvaluation.success) =>
     variables = LastEvaluation.pre


\* the number of top-level statements on a sequence of lines
RECURSIVE StatementsOn(_)
StatementsOn(lines) ==
  IF lines = <<>> THEN 0 ELSE NodesOn(lines[1]) + StatementsOn(Tail(lines))

\* the number of top-level statements in the blocks, each block counted
RECURSIVE StatementsIn(_)
StatementsIn(blocks) ==
  IF blocks = <<>> THEN 0
  ELSE StatementsOn(blocks[1]) + StatementsIn(Tail(blocks))

\* C29: for a source that parses as a whole and holds no function definition,
\* split_blocks returns one block per top-level statement, in source order,
\* and every top-level statement is in exactly one block: none is duplicated
\* and none is dropped.
C29_OneBlockPerStatement ==
  (pc = "split" /\ AstParses(input) /\ ~HasFunctionDef(input)) =>
     /\ output.exc = ""
     /\ Len(output.blocks) = StatementsOn(input)
     /\ StatementsIn(output.blocks) = StatementsOn(input)
     /\ \A i \in 1..Len(output.blocks) :
          \E j \in 1..Len(input) :
            /\ output.blocks[i] = <<input[j]>>
            /\ StatementsOn(SubSeq(input, 1, j - 1)) < i
            /\ i <= StatementsOn(SubSeq(input, 1, j))


\* the requests sent for node k, in order
RequestsFor(k) == SelectSeq(prompts, LAMBDA p : p.node = k)

\* the first request of a node is without the corrective instruction, every
\* later one carries it, and a node gets at most max_rewrite requests
HintOnRetries ==
  \A k \in 1..Len(nodes) :
    /\ Len(RequestsFor(k)) <= max_rewrite
    /\ \A i \in 1..Len(RequestsFor(k)) : RequestsFor(k)[i].hint = (i > 1)

\* a step of an expansion: the request that opens it is without the
\* instruction; a reply that fails validation is followed, while the budget
\* lasts, by one request with the instruction; a reply that validates ends
\* the expansion with no further request
C30_Step ==
  /\ (pc = "ready" /\ pc' = "llm") =>
        /\ prompts' = Append(prompts, [node |-> current_node', hint |-> FALSE])
        /\ attempt' = 0
  /\ (pc = "llm" /\ pc' = "llm") =>
        /\ turn'.expanded = ""
        /\ prompts' = Append(prompts, [node |-> current_node, hint |-> TRUE])
        /\ attempt' = attempt + 1
        /\ attempt' < max_rewrite
        /\ current_node' = current_node
  /\ (pc = "llm" /\ turn'.expanded \in {"children", "empty"}) =>
        /\ pc' # "llm"
        /\ prompts' = prompts
        /\ attempt' = attempt
  /\ pc \notin {"ready", "llm"} => prompts' = prompts

ChildrenUnderStub ==
  \A k \in 1..Len(nodes) :
    /\ nodes[k].children # <<>> => nodes[k].status = "STUB"
    /\ nodes[k].parent # 0 => nodes[nodes[k].parent].status = "STUB"

\* a step that adds nodes creates the root of an empty tree, or adds the
\* children of the current node, which is STUB and awaits its expansion
AddedByExpansion ==
  Len(nodes') > Len(nodes) =>
    IF nodes = <<>>
      THEN Len(nodes') = 1 /\ nodes'[1].parent = 0
      ELSE /\ pc = "llm"
           /\ nodes[current_node].status = "STUB"
           /\ nodes[current_node].children = <<>>
           /\ \A k \in (Len(nodes) + 1)..Len(nodes') :
                /\ nodes'[k].parent = current_node
                /\ k \in Range(nodes'[current_node].children)

\* C35: in every reachable state a node has children only if its status is
\* STUB: nodes are added only as children of the current STUB node during
\* its expansion, so the parent of every node but the root is STUB and every
\* PENDING, COMPLETED, ERROR or SKIP node is a leaf.
C35_ChildrenOnlyUnderStub == []ChildrenUnderStub /\ [][AddedByExpansion]_vars

\* an expanded node under an expanded root, beside leaves that are COMPLETED
\* and PENDING
C35_Witness ==
  /\ Len(nodes) >= 4
  /\ \E k \in 2..Len(nodes) :
       /\ nodes[k].children # <<>>
       /\ nodes[k].status = "STUB"
       /\ nodes[nodes[k].parent].status = "STUB"
  /\ \E k \in 2..Len(nodes) : nodes[k].status = "COMPLETED"
  /\ \E k \in 2..Len(nodes) : nodes[k].status = "PENDING"


\* the largest depth of a node of the tree; 0 for no tree
LargestDepth ==
  IF nodes = <<>> THEN 0
  ELSE CHOOSE d \in {nodes[k].depth : k \in 1..Len(nodes)} :
         \A k \in 1..Len(nodes) : nodes[k].depth <= d

\* C36: in every reachable state every node's depth is at most the configured
\* maximum depth, so the max_depth of report() equals the largest depth of a
\* node of the tree and never exceeds the configured maximum.
C36_DepthWithinMaximum ==
  /\ \A k \in 1..Len(nodes) : nodes[k].depth <= max_depth
  /\ pc = "reported" =>
       /\ output.max_depth = LargestDepth
       /\ output.max_depth <= max_depth

\* the report of a tree that reached the configured maximum depth of 2
C36_Witness ==
  /\ pc = "reported"
  /\ max_depth = 2
  /\ output.max_depth = 2
  /\ \E k \in 1..Len(nodes) : nodes[k].depth = 2 /\ nodes[k].status = "STUB"


\* C37: when act returns [FINISH] because traversal found no next node (after
\* a successful evaluation or an empty expansion), the attempt ended
\* successfully: no node of the tree is PENDING, none is ERROR, and every STUB
\* node has at least one child.
C37_ExhaustionIsSuccess ==
  (pc = "finished" /\ turn.ret = "FINISH" /\ turn.why = "exhausted") =>
     \A k \in 1..Len(nodes) :
       /\ nodes[k].status \notin {"PENDING", "ERROR"}
       /\ nodes[k].status = "STUB" => nodes[k].children # <<>>

\* traversal ended on the way back up from a grandchild of the root, past a
\* node whose expansion was empty
C37_Witness ==
  /\ pc = "finished" /\ turn.why = "exhausted"
  /\ turn.evaluated /\ turn.success
  /\ nodes[turn.node].depth = 2
  /\ \E k \in 1..Len(nodes) : nodes[k].status = "SKIP"
  /\ \E k \in 2..Len(nodes) : nodes[k].status = "STUB"


\* C34: Node.next of recode_plus, and so find_next_pending(), terminates for
\* every finite tree and every assignment of statuses, and returns None
\* whenever no node of the tree is PENDING or STUB (as for a root whose
\* children are all COMPLETED).
C34_NextTerminates ==
  pc = "find_next_pending" =>
    /\ output # RecursionError
    /\ (\A k \in 1..Len(tree.objs) : ~Waiting(tree.objs[k])) => output = 0


\* the tool calls passed to execute_tool
Executed == Range(mediator.executed)

\* a tool call that requires approval has been executed only if its request
\* resolved to approved; a node whose request was rejected or timed out is
\* REJECTED with that call and every later one not executed
ApprovalBeforeExecution ==
  mediator.pc # "none" =>
    /\ \A id \in Executed :
         mediator.calls[id] =>
           mediator.futures[id] = "True" /\ id \in mediator.approved
    /\ \A id \in 1..Len(mediator.calls) :
         (mediator.futures[id] \in {"False", "cancelled"}
            /\ (mediator.pc # "approval" \/ mediator.at # id)) =>
           /\ mediator.status = "rejected"
           /\ \A later \in id..Len(mediator.calls) : later \notin Executed

\* a REJECTED node stays REJECTED and executes nothing more
RejectedIsFinal ==
  (mediator.pc # "none" /\ mediator.status = "rejected") =>
    /\ mediator'.status = "rejected"
    /\ mediator'.executed = mediator.executed

\* C31: in _execute_node a tool call that requires approval is passed to
\* execute_tool only after its approval request resolved to approved; on
\* rejection or on the approval timeout the node becomes REJECTED and neither
\* that tool call nor any later tool call of the node is executed.
C31_ApprovalGuardsExecution ==
  []ApprovalBeforeExecution /\ [][RejectedIsFinal]_vars

\* an approved call was executed; the next one timed out and the node is
\* REJECTED
C31_Witness ==
  /\ mediator.pc = "receive"
  /\ mediator.calls = <<TRUE, TRUE>>
  /\ mediator.executed = <<1>>
  /\ mediator.futures[1] = "True"
  /\ mediator.futures[2] = "cancelled"
  /\ mediator.status = "rejected"

\* a step in which approve_tool or reject_tool was called
Called_approve == mediator.pc # "none" /\ mediator'.last # mediator.last

\* C32: each approval request is resolved at most once: approve_tool /
\* reject_tool on an id that is pending resolves it with True / False, removes
\* it from pending_approvals and returns True; on an id that is unknown,
\* already resolved or timed out they return False and leave all mediator
\* state unchanged.
C32_Step ==
  /\ mediator.pc # "none" =>
       \A id \in ToolCallIds :
         mediator.futures[id] \in {"True", "False"} =>
           mediator'.futures[id] = mediator.futures[id]
  /\ Called_approve =>
       LET id == mediator'.last.id
       IN IF id \in mediator.pending_approvals
               /\ mediator.futures[id] = "pending"
            THEN /\ mediator'.last.ret = "True"
                 /\ mediator'.futures[id] =
                      (IF mediator'.last.approved THEN "True" ELSE "False")
                 /\ mediator'.pending_approvals =
                      mediator.pending_approvals \ {id}
            ELSE /\ mediator'.last.ret = "False"
                 /\ mediator'.futures = mediator.futures
                 /\ mediator'.pending_approvals = mediator.pending_approvals
                 /\ mediator'.status = mediator.status
                 /\ mediator'.executed = mediator.executed

C32_ResolvedOnce == [][C32_Step]_vars

\* C33: if the client sends an approval_response for tool call t over the
\* session's socket while chat_stream awaits the approval of t, the server
\* reads and applies it while t is still pending: approve_tool / reject_tool
\* finds t and resolves it, so the wait ends by that response.  (Stated for
\* a session in which no other approval call was made.)
C33_Step ==
  ( /\ mediator.pc = "receive"
    /\ mediator.last = NoCall
    /\ mediator.inbox # <<>>
    /\ mediator'.inbox = Tail(mediator.inbox)
    /\ Head(mediator.inbox).type = "approval_response"
    /\ Head(mediator.inbox).during = Head(mediator.inbox).tool_call_id )
  => /\ Head(mediator.inbox).tool_call_id \in mediator.pending_approvals
     /\ mediator'.futures[Head(mediator.inbox).tool_call_id]
          \in {"True", "False"}
     /\ mediator'.last.ret = "True"

C33_ResponseReadWhilePending == [][C33_Step]_vars

(***************************************************************************)
(* The environment adapters of ALFWorld and ScienceWorld: one episode      *)
(* after another, each from reset to the actions passed to _run.  The      *)
(* simulator is the adapter's self.env; of the simulator the model keeps   *)
(* the number of times it was stepped since the reset, and draws what a    *)
(* step answers.                                                           *)
(***************************************************************************)
MaxSteps == 2

\* max_steps = None
NoLimit == -1

EnvNames == {"alfworld", "sciworld"}

\* the actions of a program: the empty one, the end signal in both cases,
\* and a command of the game
Actions == {"", "[FINISH]", "[finish]", "look"}

\* what self.env.step does: it answers with done and with the task won (a
\* positive score), or it raises
Answers == {[done |-> d, won |-> w, raises |-> FALSE] : d, w \in BOOLEAN}
             \cup {[done |-> FALSE, won |-> FALSE, raises |-> TRUE]}

AlreadyTerminated == "The environment has already terminated."

\* reset: the counters of the episode; max_steps is the constructor's or
\* set_max_steps's in alfworld and the task's entry of max_steps.json in
\* sciworld
reset(name, max_steps) ==
  [ pc          |-> "reset",
    env_name    |-> name,
    max_steps   |-> max_steps,
    _step_count |-> 0,
    _done       |-> FALSE,
    _success    |-> FALSE,
    stepped     |-> 0,
    action      |-> "",
    obs         |-> "",
    exc         |-> "" ]

\* the action is the end signal of the adapter
IsFinish(e, single_action) ==
  IF e.env_name = "alfworld" THEN single_action = "[FINISH]"
  ELSE single_action \in {"[FINISH]", "[finish]"}

\* the step limit is tested one action late
OverLimitLate(e, count) ==
  IF e.env_name = "alfworld"
    THEN e.max_steps # NoLimit /\ count > e.max_steps + 1
    ELSE e.max_steps # NoLimit /\ e.max_steps # 0 /\ count > e.max_steps + 1

\* alfworld: self.max_steps is not None and self._step_count > self.max_steps
\* sciworld: self.max_steps and self._step_count > self.max_steps
OverLimit(e, count) ==
  IF e.env_name = "alfworld"
    THEN e.max_steps # NoLimit /\ count > e.max_steps
    ELSE e.max_steps # NoLimit /\ e.max_steps # 0 /\ count > e.max_steps

\* _run returns obs
Observed(e, single_action, obs) ==
  [e EXCEPT !.pc = "returned", !.action = single_action, !.obs = obs,
            !.exc = ""]

\* _run raises exc
Raised(e, single_action, exc) ==
  [e EXCEPT !.pc = "raised", !.action = single_action, !.obs = "",
            !.exc = exc]

\* the counted part of _run: the count, the test of the limit, and the step
\* of the simulator with its answer
Counted(e, single_action, answer) ==
  LET c == [e EXCEPT !._step_count = @ + 1]
  IN IF OverLimit(c, c._step_count)
       THEN Raised([c EXCEPT !._done = TRUE], single_action, "StepLimitError")
     ELSE IF answer.raises
       THEN LET f == [c EXCEPT !.stepped = @ + 1, !._done = TRUE,
                               !._success = FALSE]
            IN IF e.env_name = "alfworld"
                 THEN Observed(f, single_action, "Error")
                 ELSE Raised(f, single_action, "Exception")
     ELSE Observed([c EXCEPT !.stepped = @ + 1, !._done = answer.done,
                             !._success =
                               IF e.env_name = "alfworld" THEN answer.won
                               ELSE @ \/ (answer.won /\ answer.done)],
                   single_action, "obs")

\* AlfworldEnv._run: the end signal is handled before the test of _done
AlfworldEnv_run(e, single_action, answer) ==
  IF single_action = "" THEN Observed(e, single_action, "")
  ELSE IF IsFinish(e, single_action)
    THEN Observed([e EXCEPT !._done = TRUE], single_action,
                  "Episode terminated by agent.")
  ELSE IF e._done THEN Observed(e, single_action, AlreadyTerminated)
  ELSE Counted(e, single_action, answer)

\* SciWorldEnv._run: the test of _done comes first
SciWorldEnv_run(e, single_action, answer) ==
  IF single_action = "" THEN Observed(e, single_action, "")
  ELSE IF e._done THEN Observed(e, single_action, AlreadyTerminated)
  ELSE IF IsFinish(e, single_action)
    THEN Observed([e EXCEPT !._done = TRUE], single_action,
                  IF e._success THEN "You have finished the task."
                  ELSE "Task failed.")
  ELSE Counted(e, single_action, answer)

_run(e, single_action, answer) ==
  IF e.env_name = "alfworld" THEN AlfworldEnv_run(e, single_action, answer)
  ELSE SciWorldEnv_run(e, single_action, answer)

InitEnv ==
  /\ pc = "Env"
  /\ \E name \in EnvNames, max_steps \in {NoLimit} \cup 0..MaxSteps :
       env = reset(name, max_steps)
  /\ mediator = NoMediator
  /\ tree = NoTree
  /\ llm = NoLLM
  /\ input = 0
  /\ output = 0
  /\ max_depth = 0
  /\ max_rewrite = 0
  /\ is_start = FALSE
  /\ nodes = <<>>
  /\ current_node = 0
  /\ variables = <<>>
  /\ attempt = 0
  /\ retry_hint_added = FALSE
  /\ prompts = <<>>
  /\ evaluated = <<>>
  /\ turn = NoTurn

\* reset: the next episode of the same adapter
ResetEnv(max_steps) ==
  /\ env.pc # "reset"
  /\ env' = reset(env.env_name, max_steps)
  /\ UNCHANGED <<pc, input, output, agent, tree, mediator, llm>>

\* one action of the program is passed to _run; without a limit the count
\* is followed up to MaxSteps + 1
Run(single_action, answer) ==
  /\ env._done \/ env._step_count <= MaxSteps
  /\ env' = _run(env, single_action, answer)
  /\ UNCHANGED <<pc, input, output, agent, tree, mediator, llm>>

NextEnv ==
  \/ \E max_steps \in {NoLimit} \cup 0..MaxSteps : ResetEnv(max_steps)
  \/ \E single_action \in Actions, answer \in Answers :
       Run(single_action, answer)

SpecEnv == InitEnv /\ [][NextEnv]_vars

\* the adapter holds a step limit: max_steps, where the test of the limit
\* reads one
StepLimit(e) ==
  IF e.env_name = "alfworld" THEN e.max_steps # NoLimit
  ELSE e.max_steps # NoLimit /\ e.max_steps # 0

\* an action that is neither empty nor the end signal
Ordinary(e, single_action) ==
  single_action # "" /\ ~IsFinish(e, single_action)

SteppedWithinLimit == StepLimit(env) => env.stepped <= env.max_steps

\* a call of _run within the episode
RunStep == env'.pc # "reset"

C38_Step ==
  RunStep =>
    /\ (StepLimit(env) /\ env'._step_count = env._step_count + 1
          /\ env'._step_count = env.max_steps + 1)
         => /\ env'._done
            /\ env'.exc = "StepLimitError"
            /\ env'.stepped = env.stepped
    /\ (env._done /\ Ordinary(env, env'.action))
         => /\ env'.obs = AlreadyTerminated
            /\ env'.exc = ""
            /\ env'.stepped = env.stepped
            /\ env'._step_count = env._step_count

\* C38: in the environment adapters with step limit M the simulator is
\* stepped at most M times per episode: the (M+1)-th counted action sets
\* done and raises StepLimitError without stepping the simulator, and every
\* ordinary action after done returns the 'already terminated' observation
\* without stepping the simulator or increasing the step count
C38_StepLimit == []SteppedWithinLimit /\ [][C38_Step]_vars

\* the limit was reached by M steps of the simulator, the next action raised
\* StepLimitError, and an ordinary action after it was turned away
C38_Witness ==
  /\ StepLimit(env)
  /\ env.max_steps > 0
  /\ env.stepped = env.max_steps
  /\ env._step_count = env.max_steps + 1
  /\ env._done
  /\ env.action = "look"
  /\ env.obs = AlreadyTerminated

(***************************************************************************)
(* AsyncLLM: one request after another through __call__, each with the     *)
(* attempts of _retry_api_call.  An attempt is one call of                 *)
(* self.client.chat.completions.create; the model draws what it answers.   *)
(* The cost of a response is counted in whole units.                       *)
(***************************************************************************)
MaxRetries == 2
MaxRequests == 2
MaxCost == 1

\* the exceptions named by the except clause of _retry_api_call
RetriedErrors ==
  {"APIError", "APIConnectionError", "APITimeoutError", "RateLimitError"}

\* what create may raise: those, and an exception of another class
CreateErrors == RetriedErrors \cup {"ValueError"}

\* what create may return: a response with a message and the cost of its
\* usage, or one without choices
Completions == {[choices |-> TRUE, cost |-> c] : c \in 0..MaxCost}
               \cup {[choices |-> FALSE, cost |-> 0]}

\* AsyncLLM.__init__ with the max_retries and track_costs of the profile
NewLLM(max_retries, track_costs) ==
  [ pc          |-> "idle",
    max_retries |-> max_retries,
    track_costs |-> track_costs,
    spent       |-> 0,
    requests    |-> 0,
    attempt     |-> 0,
    \* of the request at hand: the errors of its attempts in order, whether
    \* its last attempt returned, spent when it began, and how it ended
    errors      |-> <<>>,
    answered    |-> FALSE,
    before      |-> 0,
    exc         |-> "" ]

\* except (APIError, APIConnectionError, APITimeoutError, RateLimitError)
Retried(error) == error \in RetriedErrors

\* the last attempt is taken for one that is followed by another
LastAttemptLate(l) == l.attempt = l.max_retries + 1

\* if attempt == self.config.max_retries
LastAttempt(l) == l.attempt = l.max_retries

\* __call__ raises exc
Raises(l, exc) == [l EXCEPT !.pc = "raised", !.exc = exc]

\* __call__ after _retry_api_call returned response: the content, the cost
\* and self.spent += cost
Respond(l, response) ==
  IF ~response.choices THEN Raises(l, "IndexError")
  ELSE [l EXCEPT !.pc = "returned",
                 !.spent = @ + (IF l.track_costs THEN response.cost ELSE 0)]

\* the for loop of _retry_api_call at attempt: the next create, or past
\* range(max_retries + 1) the end of the function, which returns None to
\* __call__
Attempt(l, i) ==
  IF i < l.max_retries + 1
    THEN [l EXCEPT !.pc = "create", !.attempt = i]
    ELSE Raises(l, "AttributeError")

InitLLM ==
  /\ pc = "AsyncLLM"
  /\ \E max_retries \in 0..MaxRetries, track_costs \in BOOLEAN :
       llm = NewLLM(max_retries, track_costs)
  /\ mediator = NoMediator
  /\ tree = NoTree
  /\ env = NoEnv
  /\ input = 0
  /\ output = 0
  /\ max_depth = 0
  /\ max_rewrite = 0
  /\ is_start = FALSE
  /\ nodes = <<>>
  /\ current_node = 0
  /\ variables = <<>>
  /\ attempt = 0
  /\ retry_hint_added = FALSE
  /\ prompts = <<>>
  /\ evaluated = <<>>
  /\ turn = NoTurn

\* __call__ up to the first create of _retry_api_call
__call__ ==
  /\ llm.pc \in {"idle", "returned", "raised"}
  /\ llm.requests < MaxRequests
  /\ llm' = Attempt([llm EXCEPT !.requests = @ + 1, !.errors = <<>>,
                                !.answered = FALSE, !.before = llm.spent,
                                !.exc = ""], 0)
  /\ UNCHANGED <<pc, input, output, agent, tree, mediator, env>>

\* create returns: _retry_api_call returns the response, and __call__ goes
\* on to its end
CreateReturns(response) ==
  /\ llm.pc = "create"
  /\ llm' = Respond([llm EXCEPT !.answered = TRUE], response)
  /\ UNCHANGED <<pc, input, output, agent, tree, mediator, env>>

\* create raises: an error of the except clause is raised again on the last
\* attempt and followed by the backoff otherwise; another exception leaves
\* _retry_api_call and __call__ at once
CreateRaises(error) ==
  /\ llm.pc = "create"
  /\ LET l == [llm EXCEPT !.errors = Append(@, error)]
     IN llm' = IF Retried(error) /\ ~LastAttempt(l)
                 THEN [l EXCEPT !.pc = "sleep"]
                 ELSE Raises(l, error)
  /\ UNCHANGED <<pc, input, output, agent, tree, mediator, env>>

\* asyncio.sleep(backoff_time) returns: the loop goes to its next attempt
Backoff ==
  /\ llm.pc = "sleep"
  /\ llm' = Attempt(llm, llm.attempt + 1)
  /\ UNCHANGED <<pc, input, output, agent, tree, mediator, env>>

NextLLM ==
  \/ __call__
  \/ \E response \in Completions : CreateReturns(response)
  \/ \E error \in CreateErrors : CreateRaises(error)
  \/ Backoff

SpecLLM == InitLLM /\ [][NextLLM]_vars

\* the attempts made for the request at hand
AttemptsMade(l) == Len(l.errors) + (IF l.answered THEN 1 ELSE 0)

\* every attempt but the last failed with an error of the except clause
RetriedBefore(l) ==
  \A k \in 1..(AttemptsMade(l) - 1) : Retried(l.errors[k])

\* C39: _retry_api_call makes at most max_retries + 1 API attempts for one
\* request: it returns the first successful response, retries only after
\* APIError / APIConnectionError / APITimeoutError / RateLimitError, and
\* raises the error of the last attempt again when all attempts fail; spent
\* is unchanged by a call that fails
C39_BoundedRetries ==
  /\ AttemptsMade(llm) <= llm.max_retries + 1
  /\ RetriedBefore(llm)
  /\ llm.pc = "sleep" => Retried(llm.errors[Len(llm.errors)])
  /\ llm.pc = "returned" => llm.answered
  /\ (llm.pc = "raised" /\ ~llm.answered)
       => /\ llm.errors # <<>>
          /\ llm.exc = llm.errors[Len(llm.errors)]
          /\ Retried(llm.exc) => AttemptsMade(llm) = llm.max_retries + 1
  /\ llm.pc = "raised" => llm.spent = llm.before

\* a request with retries whose every attempt failed, after a request that
\* was charged
C39_Witness ==
  /\ llm.pc = "raised"
  /\ llm.max_retries > 0
  /\ AttemptsMade(llm) = llm.max_retries + 1
  /\ Retried(llm.exc)
  /\ llm.spent > 0

====
